---------------------------- MODULE Spec2Model ----------------------------
(***************************************************************************)
(* Model of the retrieval core of rag-knowledge-base (src/rag_chain.py):   *)
(* query expansion, keyword extraction, the embedding retry loop, the      *)
(* hybrid search query and the document store operations that run on the   *)
(* process-wide shared psycopg2 connection.                                *)
(*                                                                         *)
(* Text is a sequence of characters.  A character is a one-symbol string:  *)
(* an ASCII character stands for itself, a Hangul syllable is written by   *)
(* its romanised jamo (initial, vowel, final; the silent initial is "x"),  *)
(* so every syllable is at least two letters long and never collides with  *)
(* an ASCII character.  The four CJK brackets and the two fullwidth        *)
(* parentheses of the punctuation class are written "cjk..." / "fw...".    *)
(***************************************************************************)
EXTENDS Integers, Sequences, FiniteSets, Bags, TLC

KR_EN_MAP ==
  << [kr |-> <<"tae","jae","dae","hag","gyo">>,
      en |-> <<"T","a","e","j","a","e"," ","T","A","E","J","A","E"," ","t","a","e","j","a","e",".","a","c",".","k","r">>],
     [kr |-> <<"tae","jae">>,
      en |-> <<"T","a","e","j","a","e"," ","T","A","E","J","A","E"," ","t","a","e","j","a","e">>],
     [kr |-> <<"bi","jeon">>,
      en |-> <<"v","i","s","i","o","n"," ","v","i","s","i","o","n","s">>],
     [kr |-> <<"mog","pyo">>,
      en |-> <<"g","o","a","l"," ","g","o","a","l","s"," ","o","b","j","e","c","t","i","v","e">>],
     [kr |-> <<"gyo","xyug">>,
      en |-> <<"e","d","u","c","a","t","i","o","n"," ","e","d","u","c","a","t","i","o","n","a","l">>],
     [kr |-> <<"cheol","hag">>,
      en |-> <<"p","h","i","l","o","s","o","p","h","y">>],
     [kr |-> <<"xin","jae">>,
      en |-> <<"t","a","l","e","n","t"," ","l","e","a","d","e","r">>],
     [kr |-> <<"haeg","sim","xyeog","ryang">>,
      en |-> <<"c","o","r","e"," ","c","o","m","p","e","t","e","n","c","y">>],
     [kr |-> <<"hag","saeng">>,
      en |-> <<"s","t","u","d","e","n","t"," ","s","t","u","d","e","n","t","s">>],
     [kr |-> <<"kaem","peo","seu">>,
      en |-> <<"c","a","m","p","u","s">>],
     [kr |-> <<"geul","ro","beol">>,
      en |-> <<"g","l","o","b","a","l">>],
     [kr |-> <<"hyeog","sin">>,
      en |-> <<"i","n","n","o","v","a","t","i","o","n">>],
     [kr |-> <<"mi","rae">>,
      en |-> <<"f","u","t","u","r","e">>],
     [kr |-> <<"hag","seub">>,
      en |-> <<"l","e","a","r","n","i","n","g"," ","s","t","u","d","y">>],
     [kr |-> <<"ri","deo">>,
      en |-> <<"l","e","a","d","e","r"," ","l","e","a","d","e","r","s","h","i","p">>],
     [kr |-> <<"xyeon","gu">>,
      en |-> <<"r","e","s","e","a","r","c","h">>],
     [kr |-> <<"gae","bal">>,
      en |-> <<"d","e","v","e","l","o","p","m","e","n","t">>],
     [kr |-> <<"gi","sul">>,
      en |-> <<"t","e","c","h","n","o","l","o","g","y">>],
     [kr |-> <<"gwa","hag">>,
      en |-> <<"s","c","i","e","n","c","e">>],
     [kr |-> <<"gong","hag">>,
      en |-> <<"e","n","g","i","n","e","e","r","i","n","g">>],
     [kr |-> <<"gyeong","xyeong">>,
      en |-> <<"m","a","n","a","g","e","m","e","n","t"," ","b","u","s","i","n","e","s","s">>],
     [kr |-> <<"gyeong","je">>,
      en |-> <<"e","c","o","n","o","m","i","c","s"," ","e","c","o","n","o","m","y">>],
     [kr |-> <<"sa","hoe">>,
      en |-> <<"s","o","c","i","e","t","y"," ","s","o","c","i","a","l">>],
     [kr |-> <<"mun","hwa">>,
      en |-> <<"c","u","l","t","u","r","e"," ","c","u","l","t","u","r","a","l">>],
     [kr |-> <<"jeong","chaeg">>,
      en |-> <<"p","o","l","i","c","y">>],
     [kr |-> <<"jeon","ryag">>,
      en |-> <<"s","t","r","a","t","e","g","y"," ","s","t","r","a","t","e","g","i","c">>],
     [kr |-> <<"gye","hoeg">>,
      en |-> <<"p","l","a","n"," ","p","l","a","n","n","i","n","g">>],
     [kr |-> <<"pyeong","ga">>,
      en |-> <<"e","v","a","l","u","a","t","i","o","n"," ","a","s","s","e","s","s","m","e","n","t">>],
     [kr |-> <<"bun","seog">>,
      en |-> <<"a","n","a","l","y","s","i","s">>],
     [kr |-> <<"seol","gye">>,
      en |-> <<"d","e","s","i","g","n">>],
     [kr |-> <<"gu","hyeon">>,
      en |-> <<"i","m","p","l","e","m","e","n","t","a","t","i","o","n">>],
     [kr |-> <<"xun","xyeong">>,
      en |-> <<"o","p","e","r","a","t","i","o","n"," ","m","a","n","a","g","e","m","e","n","t">>],
     [kr |-> <<"gwan","ri">>,
      en |-> <<"m","a","n","a","g","e","m","e","n","t"," ","a","d","m","i","n","i","s","t","r","a","t","i","o","n">>],
     [kr |-> <<"si","seu","tem">>,
      en |-> <<"s","y","s","t","e","m">>],
     [kr |-> <<"peu","ro","geu","raem">>,
      en |-> <<"p","r","o","g","r","a","m">>],
     [kr |-> <<"peu","ro","jeg","teu">>,
      en |-> <<"p","r","o","j","e","c","t">>],
     [kr |-> <<"de","xi","teo">>,
      en |-> <<"d","a","t","a">>],
     [kr |-> <<"jeong","bo">>,
      en |-> <<"i","n","f","o","r","m","a","t","i","o","n">>],
     [kr |-> <<"bo","xan">>,
      en |-> <<"s","e","c","u","r","i","t","y">>],
     [kr |-> <<"ne","teu","xwo","keu">>,
      en |-> <<"n","e","t","w","o","r","k">>],
     [kr |-> <<"seo","beo">>,
      en |-> <<"s","e","r","v","e","r">>],
     [kr |-> <<"keul","ra","xu","deu">>,
      en |-> <<"c","l","o","u","d">>],
     [kr |-> <<"xin","gong","ji","neung">>,
      en |-> <<"a","r","t","i","f","i","c","i","a","l"," ","i","n","t","e","l","l","i","g","e","n","c","e"," ","A","I">>],
     [kr |-> <<"meo","sin","reo","ning">>,
      en |-> <<"m","a","c","h","i","n","e"," ","l","e","a","r","n","i","n","g">>],
     [kr |-> <<"dib","reo","ning">>,
      en |-> <<"d","e","e","p"," ","l","e","a","r","n","i","n","g">>],
     [kr |-> <<"xal","go","ri","jeum">>,
      en |-> <<"a","l","g","o","r","i","t","h","m">>],
     [kr |-> <<"so","peu","teu","xwe","xeo">>,
      en |-> <<"s","o","f","t","w","a","r","e">>],
     [kr |-> <<"ha","deu","xwe","xeo">>,
      en |-> <<"h","a","r","d","w","a","r","e">>],
     [kr |-> <<"xib","hag">>,
      en |-> <<"a","d","m","i","s","s","i","o","n"," ","e","n","r","o","l","l","m","e","n","t">>],
     [kr |-> <<"jol","xeob">>,
      en |-> <<"g","r","a","d","u","a","t","i","o","n">>],
     [kr |-> <<"jang","hag","geum">>,
      en |-> <<"s","c","h","o","l","a","r","s","h","i","p">>],
     [kr |-> <<"deung","rog","geum">>,
      en |-> <<"t","u","i","t","i","o","n"," ","f","e","e">>],
     [kr |-> <<"su","xeob">>,
      en |-> <<"c","l","a","s","s"," ","c","o","u","r","s","e"," ","l","e","c","t","u","r","e">>],
     [kr |-> <<"si","heom">>,
      en |-> <<"e","x","a","m"," ","e","x","a","m","i","n","a","t","i","o","n">>],
     [kr |-> <<"seong","jeog">>,
      en |-> <<"g","r","a","d","e"," ","s","c","o","r","e">>],
     [kr |-> <<"hag","jeom">>,
      en |-> <<"c","r","e","d","i","t">>],
     [kr |-> <<"gyo","su">>,
      en |-> <<"p","r","o","f","e","s","s","o","r"," ","f","a","c","u","l","t","y">>],
     [kr |-> <<"jig","xwon">>,
      en |-> <<"s","t","a","f","f"," ","e","m","p","l","o","y","e","e">>],
     [kr |-> <<"gyu","jeong">>,
      en |-> <<"r","e","g","u","l","a","t","i","o","n"," ","r","u","l","e">>],
     [kr |-> <<"gyu","chig">>,
      en |-> <<"r","u","l","e">>],
     [kr |-> <<"ji","chim">>,
      en |-> <<"g","u","i","d","e","l","i","n","e">>],
     [kr |-> <<"jeong","gwan">>,
      en |-> <<"a","r","t","i","c","l","e","s"," ","c","h","a","r","t","e","r">>],
     [kr |-> <<"xye","san">>,
      en |-> <<"b","u","d","g","e","t">>],
     [kr |-> <<"hoe","gye">>,
      en |-> <<"a","c","c","o","u","n","t","i","n","g"," ","f","i","n","a","n","c","e">>],
     [kr |-> <<"gye","xyag">>,
      en |-> <<"c","o","n","t","r","a","c","t"," ","a","g","r","e","e","m","e","n","t">>],
     [kr |-> <<"gu","mae">>,
      en |-> <<"p","r","o","c","u","r","e","m","e","n","t"," ","p","u","r","c","h","a","s","e">>],
     [kr |-> <<"chul","jang">>,
      en |-> <<"b","u","s","i","n","e","s","s"," ","t","r","i","p"," ","t","r","a","v","e","l">>],
     [kr |-> <<"xyeo","bi">>,
      en |-> <<"t","r","a","v","e","l"," ","e","x","p","e","n","s","e","s">>],
     [kr |-> <<"xin","sa">>,
      en |-> <<"p","e","r","s","o","n","n","e","l"," ","H","R">>],
     [kr |-> <<"bog","mu">>,
      en |-> <<"s","e","r","v","i","c","e"," ","d","u","t","y">>],
     [kr |-> <<"geub","xyeo">>,
      en |-> <<"s","a","l","a","r","y"," ","p","a","y">>],
     [kr |-> <<"bo","su">>,
      en |-> <<"c","o","m","p","e","n","s","a","t","i","o","n"," ","r","e","m","u","n","e","r","a","t","i","o","n">>],
     [kr |-> <<"chae","xyong">>,
      en |-> <<"r","e","c","r","u","i","t","m","e","n","t"," ","h","i","r","i","n","g">>],
     [kr |-> <<"toe","jig">>,
      en |-> <<"r","e","t","i","r","e","m","e","n","t"," ","r","e","s","i","g","n","a","t","i","o","n">>],
     [kr |-> <<"jing","gye">>,
      en |-> <<"d","i","s","c","i","p","l","i","n","e"," ","d","i","s","c","i","p","l","i","n","a","r","y">>],
     [kr |-> <<"sang","beol">>,
      en |-> <<"r","e","w","a","r","d"," ","p","u","n","i","s","h","m","e","n","t">>],
     [kr |-> <<"xan","jeon">>,
      en |-> <<"s","a","f","e","t","y">>],
     [kr |-> <<"hwan","gyeong">>,
      en |-> <<"e","n","v","i","r","o","n","m","e","n","t">>],
     [kr |-> <<"si","seol">>,
      en |-> <<"f","a","c","i","l","i","t","y"," ","f","a","c","i","l","i","t","i","e","s">>],
     [kr |-> <<"geon","mul">>,
      en |-> <<"b","u","i","l","d","i","n","g">>],
     [kr |-> <<"do","seo","gwan">>,
      en |-> <<"l","i","b","r","a","r","y">>],
     [kr |-> <<"gi","sug","sa">>,
      en |-> <<"d","o","r","m","i","t","o","r","y">>],
     [kr |-> <<"xwi","xwon","hoe">>,
      en |-> <<"c","o","m","m","i","t","t","e","e"," ","c","o","m","m","i","s","s","i","o","n">>],
     [kr |-> <<"hoe","xui">>,
      en |-> <<"m","e","e","t","i","n","g"," ","c","o","n","f","e","r","e","n","c","e">>],
     [kr |-> <<"bo","go","seo">>,
      en |-> <<"r","e","p","o","r","t">>],
     [kr |-> <<"mun","seo">>,
      en |-> <<"d","o","c","u","m","e","n","t">>],
     [kr |-> <<"seung","xin">>,
      en |-> <<"a","p","p","r","o","v","a","l">>],
     [kr |-> <<"heo","ga">>,
      en |-> <<"p","e","r","m","i","s","s","i","o","n"," ","p","e","r","m","i","t">>],
     [kr |-> <<"gam","sa">>,
      en |-> <<"a","u","d","i","t"," ","i","n","s","p","e","c","t","i","o","n">>],
     [kr |-> <<"jeom","geom">>,
      en |-> <<"i","n","s","p","e","c","t","i","o","n"," ","c","h","e","c","k">>],
     [kr |-> <<"hyeob","ryeog">>,
      en |-> <<"c","o","o","p","e","r","a","t","i","o","n"," ","c","o","l","l","a","b","o","r","a","t","i","o","n">>],
     [kr |-> <<"pa","teu","neo">>,
      en |-> <<"p","a","r","t","n","e","r"," ","p","a","r","t","n","e","r","s","h","i","p">>],
     [kr |-> <<"san","hag">>,
      en |-> <<"i","n","d","u","s","t","r","y","-","a","c","a","d","e","m","i","a">>],
     [kr |-> <<"san","hag","hyeob","ryeog">>,
      en |-> <<"i","n","d","u","s","t","r","y","-","a","c","a","d","e","m","i","a"," ","c","o","o","p","e","r","a","t","i","o","n">>],
     [kr |-> <<"teug","heo">>,
      en |-> <<"p","a","t","e","n","t">>],
     [kr |-> <<"jeo","jag","gwon">>,
      en |-> <<"c","o","p","y","r","i","g","h","t">>],
     [kr |-> <<"non","mun">>,
      en |-> <<"t","h","e","s","i","s"," ","p","a","p","e","r">>],
     [kr |-> <<"hag","xwi">>,
      en |-> <<"d","e","g","r","e","e">>],
     [kr |-> <<"keo","ri","kyul","reom">>,
      en |-> <<"c","u","r","r","i","c","u","l","u","m">>],
     [kr |-> <<"gyo","gwa">>,
      en |-> <<"c","u","r","r","i","c","u","l","u","m"," ","c","o","u","r","s","e">>],
     [kr |-> <<"seong","gwa">>,
      en |-> <<"p","e","r","f","o","r","m","a","n","c","e"," ","r","e","s","u","l","t">>],
     [kr |-> <<"mog","jeog">>,
      en |-> <<"p","u","r","p","o","s","e"," ","o","b","j","e","c","t","i","v","e">>],
     [kr |-> <<"jo","jig">>,
      en |-> <<"o","r","g","a","n","i","z","a","t","i","o","n">>],
     [kr |-> <<"bu","seo">>,
      en |-> <<"d","e","p","a","r","t","m","e","n","t"," ","d","i","v","i","s","i","o","n">>] >>

stop_words ==
  { <<"xeun">>,
    <<"neun">>,
    <<"xi">>,
    <<"ga">>,
    <<"xeul">>,
    <<"reul">>,
    <<"xui">>,
    <<"xe">>,
    <<"xe","seo">>,
    <<"xeu","ro">>,
    <<"ro">>,
    <<"xwa">>,
    <<"gwa">>,
    <<"do">>,
    <<"man">>,
    <<"kka","ji">>,
    <<"bu","teo">>,
    <<"xe","ge">>,
    <<"han","te">>,
    <<"kke">>,
    <<"xiss","da">>,
    <<"xeobs","da">>,
    <<"ha","da">>,
    <<"doe","da">>,
    <<"xi","da">>,
    <<"xa","ni","da">>,
    <<"geu">>,
    <<"xi">>,
    <<"jeo">>,
    <<"geos">>,
    <<"su">>,
    <<"deung">>,
    <<"mich">>,
    <<"tto","neun">>,
    <<"geu","ri","go">>,
    <<"mu","xeos">>,
    <<"xeo","tteon">>,
    <<"xeo","tteoh","ge">>,
    <<"xwae">>,
    <<"xeon","je">>,
    <<"xeo","di">>,
    <<"jom">>,
    <<"deo">>,
    <<"mae","xu">>,
    <<"ga","jang">>,
    <<"jeong","mal">>,
    <<"xa","ju">>,
    <<"dae","hae">>,
    <<"dae","han">>,
    <<"gwan","han">>,
    <<"gwan","hae">>,
    <<"dae","ha","xyeo">>,
    <<"gwan","ha","xyeo">>,
    <<"xal","ryeo">>,
    <<"xal","ryeo","jwo">>,
    <<"seol","myeong">>,
    <<"mwo">>,
    <<"mwon","ga">>,
    <<"xin","ga">>,
    <<"xin","ji">> }

suffixes ==
  << <<"xeun">>, <<"neun">>, <<"xi">>, <<"ga">>, <<"xeul">>, <<"reul">>, <<"xui">>, <<"xe","seo">>, <<"xe","ge">>, <<"xeu","ro">>, <<"xe">>, <<"ro">>, <<"xwa">>, <<"gwa">>, <<"do">>, <<"man">>, <<"xyo">>, <<"kka">> >>

(***************************************************************************)
(* Text helpers: the Python str operations the code uses.                  *)
(***************************************************************************)

\* Characters re.sub replaces by a space (rag_chain.py:178).
Punctuation ==
  { "?", "!", ".", ",", ";", ":", "'", "\"", "(", ")", "fw(", "fw)",
    "cjk[1", "cjk]1", "cjk[2", "cjk]2", "[", "]", "{", "}" }

\* Characters str.split() splits on.
Whitespace == { " ", "\t", "\n" }

UpperLetters ==
  << "A","B","C","D","E","F","G","H","I","J","K","L","M",
     "N","O","P","Q","R","S","T","U","V","W","X","Y","Z" >>

LowerLetters ==
  << "a","b","c","d","e","f","g","h","i","j","k","l","m",
     "n","o","p","q","r","s","t","u","v","w","x","y","z" >>

LowerMap ==
  [c \in { UpperLetters[i] : i \in 1..Len(UpperLetters) } |->
     LowerLetters[CHOOSE i \in 1..Len(UpperLetters) : UpperLetters[i] = c]]

\* Case folding of one character, as ILIKE compares.
LowerChar(c) == IF c \in DOMAIN LowerMap THEN LowerMap[c] ELSE c

Lower(s) == [i \in 1..Len(s) |-> LowerChar(s[i])]

\* Python: p in s
Contains(s, p) ==
  \E i \in 0..(Len(s) - Len(p)) : SubSeq(s, i + 1, i + Len(p)) = p

\* Python: s.endswith(p)
EndsWith(s, p) ==
  /\ Len(p) <= Len(s)
  /\ SubSeq(s, Len(s) - Len(p) + 1, Len(s)) = p

\* Python: s.split()
Split(s) ==
  LET Blank(i) == i < 1 \/ i > Len(s) \/ s[i] \in Whitespace
      starts == SelectSeq([i \in 1..Len(s) |-> i],
                          LAMBDA i : ~Blank(i) /\ Blank(i - 1))
      End(b) == CHOOSE e \in b..Len(s) :
                  /\ Blank(e + 1)
                  /\ \A j \in b..e : ~Blank(j)
  IN  [n \in 1..Len(starts) |-> SubSeq(s, starts[n], End(starts[n]))]

\* Mutant of DictFromKeys: the list is returned as it was built.
DictFromKeys_KeepsDuplicates(xs) == xs

\* Python: list(dict.fromkeys(xs)), the first occurrence of each element.
DictFromKeys(xs) ==
  LET first == SelectSeq([i \in 1..Len(xs) |-> i],
                         LAMBDA i : \A j \in 1..(i - 1) : xs[j] # xs[i])
  IN  [n \in 1..Len(first) |-> xs[first[n]]]

\* Python: sorted(xs, key=len, reverse=True), a stable sort.
SortedByLenDesc(xs) ==
  LET maxLen == IF xs = <<>> THEN 0
                ELSE CHOOSE n \in {Len(xs[i]) : i \in 1..Len(xs)} :
                       \A i \in 1..Len(xs) : Len(xs[i]) <= n
      RECURSIVE go(_)
      go(n) == IF n < 0 THEN <<>>
               ELSE SelectSeq(xs, LAMBDA x : Len(x) = n) \o go(n - 1)
  IN  go(maxLen)

RangeOf(s) == { s[i] : i \in 1..Len(s) }

\* Python: " ".join(xs)
Join(xs) ==
  LET RECURSIVE go(_)
      go(i) == IF i > Len(xs) THEN <<>>
               ELSE IF i = 1 THEN xs[1] \o go(2)
               ELSE <<" ">> \o xs[i] \o go(i + 1)
  IN  go(1)

(***************************************************************************)
(* Query Expander and Keyword Extractor.                                   *)
(***************************************************************************)

\* KR_EN_MAP.get(kr): the index of the entry with this key, 0 when absent.
MapIndex(kr) ==
  IF \E i \in 1..Len(KR_EN_MAP) : KR_EN_MAP[i].kr = kr
  THEN CHOOSE i \in 1..Len(KR_EN_MAP) : KR_EN_MAP[i].kr = kr
  ELSE 0

\* Mutant of expand_query: the loop stops at the first matching key.
expand_query_FirstMatchOnly(query) ==
  LET hits == SelectSeq([i \in 1..Len(KR_EN_MAP) |-> i],
                        LAMBDA i : Contains(query, KR_EN_MAP[i].kr))
  IN  IF hits = <<>> THEN query
      ELSE query \o <<" ">> \o KR_EN_MAP[hits[1]].en

\* expand_query(query) (rag_chain.py:153-159)
\* The loop runs over the entries in the map's order; hits are the entries
\* whose key is in the query, the only ones that change expanded.
expand_query(query) ==
  LET hits == SelectSeq([i \in 1..Len(KR_EN_MAP) |-> i],
                        LAMBDA i : Contains(query, KR_EN_MAP[i].kr))
      RECURSIVE go(_, _)
      go(n, expanded) ==
        IF n > Len(hits) THEN expanded
        ELSE go(n + 1, expanded \o <<" ">> \o KR_EN_MAP[hits[n]].en)
  IN  go(1, query)

\* re.sub(r'[?!.,;:\'"()...]', ' ', query)
Cleaned(query) ==
  [i \in 1..Len(query) |-> IF query[i] \in Punctuation THEN " " ELSE query[i]]

\* Mutant of StripSuffix: the suffixes are tried shortest first.
StripSuffix_ShortestFirst(token) ==
  LET sorted == SortedByLenDesc(suffixes)
      hits == SelectSeq([i \in 1..Len(sorted) |-> i],
                LAMBDA i : /\ Len(token) > Len(sorted[i]) + 1
                           /\ EndsWith(token, sorted[i]))
  IN  IF hits = <<>> THEN token
      ELSE SubSeq(token, 1, Len(token) - Len(sorted[hits[Len(hits)]]))

\* The suffix loop of one token (rag_chain.py:188-192): the first suffix,
\* longest first, that the token ends with and that leaves two characters.
StripSuffix(token) ==
  LET sorted == SortedByLenDesc(suffixes)
      hits == SelectSeq([i \in 1..Len(sorted) |-> i],
                LAMBDA i : /\ Len(token) > Len(sorted[i]) + 1
                           /\ EndsWith(token, sorted[i]))
  IN  IF hits = <<>> THEN token
      ELSE SubSeq(token, 1, Len(token) - Len(sorted[hits[1]]))

\* What one surviving token appends to keywords (rag_chain.py:188-202).
TokenKeywords(token) ==
  LET stripped == StripSuffix(token)
      base == IF Len(stripped) >= 2 THEN stripped ELSE token
      idx == MapIndex(base)
  IN  <<base>>
      \o (IF base # token THEN <<token>> ELSE <<>>)
      \o (IF idx # 0
          THEN SelectSeq(Split(KR_EN_MAP[idx].en), LAMBDA w : Len(w) >= 2)
          ELSE <<>>)

\* The list keywords at the end of the token loop (rag_chain.py:180-202).
keywords_emitted(query) ==
  LET tokens == Split(Cleaned(query))
      RECURSIVE go(_, _)
      go(i, keywords) ==
        IF i > Len(tokens) THEN keywords
        ELSE IF Len(tokens[i]) < 2 \/ tokens[i] \in stop_words
             THEN go(i + 1, keywords)
             ELSE go(i + 1, keywords \o TokenKeywords(tokens[i]))
  IN  go(1, <<>>)

\* extract_keywords(query) (rag_chain.py:162-204)
extract_keywords(query) == DictFromKeys(keywords_emitted(query))

(***************************************************************************)
(* Embedding Provider.                                                     *)
(*                                                                         *)
(* A vector is one of four unit directions, 60 degrees apart; Cosine gives *)
(* the cosine of the angle between two of them in hundredths.  The remote  *)
(* service is a deterministic function of the text.                       *)
(***************************************************************************)

Vectors == 0..3

Cosine == << 100, 50, -50, -100 >>

\* client.models.embed_content(...).embeddings[0].values for one text.
embed_content(text) == Len(text) % Cardinality(Vectors)

\* time.sleep(1.0 * (attempt + 1)): the factor 1.0.
BaseDelay == 1

\* max_retries: int = 5
DefaultMaxRetries == 5

\* Mutant of RetryAfterFailure: the comparison is off by one, so the last
\* failed attempt sleeps instead of raising.
RetryAfterFailure_OffByOne(attempt, max_retries) == attempt < max_retries

\* rag_chain.py:47: whether a failed attempt is followed by a sleep and a
\* retry (otherwise it raises).
RetryAfterFailure(attempt, max_retries) == attempt < max_retries - 1

\* rag_chain.py:48: the argument of time.sleep.
BackoffDelay(attempt) == BaseDelay * (attempt + 1)

\* embed_texts(texts, api_key, max_retries).  fails[i] is what the remote
\* service does with text i: the number of consecutive calls that raise
\* before a call succeeds.  The result records whether the call raised, the
\* list returned, the exception's underlying error (the failed call it came
\* from) and the log of remote calls and sleeps in program order.
embed_texts(texts, max_retries, fails) ==
  LET RECURSIVE text_loop(_, _, _), attempt_loop(_, _, _, _)
      text_loop(i, all_embeddings, log) ==
        IF i > Len(texts)
        THEN [raised |-> FALSE, value |-> all_embeddings,
              error |-> <<>>, log |-> log]
        ELSE attempt_loop(i, 0, all_embeddings, log)
      attempt_loop(i, attempt, all_embeddings, log) ==
        IF attempt >= max_retries
        THEN \* range(max_retries) is exhausted without break or raise
             text_loop(i + 1, all_embeddings, log)
        ELSE IF attempt >= fails[i]
        THEN \* the call returns: append, break
             text_loop(i + 1,
                       Append(all_embeddings, embed_content(texts[i])),
                       Append(log, [kind |-> "call", text |-> i,
                                    attempt |-> attempt, ok |-> TRUE]))
        ELSE IF RetryAfterFailure(attempt, max_retries)
        THEN attempt_loop(i, attempt + 1, all_embeddings,
                          log \o << [kind |-> "call", text |-> i,
                                     attempt |-> attempt, ok |-> FALSE],
                                    [kind |-> "sleep", text |-> i,
                                     attempt |-> attempt,
                                     delay |-> BackoffDelay(attempt)] >>)
        ELSE [raised |-> TRUE, value |-> <<>>,
              error |-> <<i, attempt>>,
              log |-> Append(log, [kind |-> "call", text |-> i,
                                   attempt |-> attempt, ok |-> FALSE])]
  IN  text_loop(1, <<>>, <<>>)

\* embed_query(query, api_key, max_retries): embed_texts([query], ...)[0];
\* indexing an empty list raises IndexError.
embed_query(query, max_retries, fails) ==
  LET r == embed_texts(<<query>>, max_retries, fails)
  IN  IF r.raised THEN [raised |-> TRUE, exc |-> "EmbeddingFailure",
                        value |-> 0, log |-> r.log]
      ELSE IF Len(r.value) = 0
           THEN [raised |-> TRUE, exc |-> "IndexError",
                 value |-> 0, log |-> r.log]
           ELSE [raised |-> FALSE, exc |-> "", value |-> r.value[1],
                 log |-> r.log]

(***************************************************************************)
(* The inputs of the model.                                                *)
(***************************************************************************)

\* Documents the ingestion layer may hand over: two with the same content,
\* one with a legacy type tag.
DocPool ==
  { [page_content |-> <<"bi","jeon">>,
     metadata |-> [type |-> "file", filename |-> <<"v","1">>]],
    [page_content |-> <<"bi","jeon">>,
     metadata |-> [type |-> "news", source |-> <<"n","1">>]],
    [page_content |-> <<"tae","jae"," ","bi","jeon">>,
     metadata |-> [type |-> "pdf", filename |-> <<"t">>, page |-> 1]] }

\* A further document, which matches "vision" only through its source.
SearchDocs ==
  DocPool \cup
    { [page_content |-> <<"x","y","z">>,
       metadata |-> [type |-> "news", source |-> <<"V","i","s","i","o","n">>]] }

\* Queries the chat layer may ask: with keywords, and without (a single
\* one-character token).
Queries ==
  { <<"bi","jeon">>,
    <<"mwo">>,
    <<"tae","jae"," ","bi","jeon","xeul","?">> }

\* Documents to score: those of SearchDocs and one that holds a keyword and
\* its synonyms.
ScoreDocs ==
  SearchDocs \cup
    { [page_content |-> <<"bi","jeon"," ","v","i","s","i","o","n","s">>,
       metadata |-> [type |-> "news", source |-> <<"n","2">>]],
      [page_content |-> <<"1","9","9","0">>,
       metadata |-> [type |-> "news", source |-> <<"n","3">>]],
      [page_content |-> <<"9","0","%">>,
       metadata |-> [type |-> "news", source |-> <<"n","4">>]] }

\* Queries to score under: those of Queries, one with a single keyword and
\* one whose keyword holds a character that LIKE reads as a wildcard.
ScoreQueries == Queries \cup { <<"V","i","s","i","o","n">>, <<"9","0","%">> }

\* expand_query and extract_keywords of each query of the model, computed
\* once.
QueryMemo ==
  [q \in ScoreQueries |->
     [expanded |-> expand_query(q), keywords |-> extract_keywords(q)]]

\* Words of a query: dictionary keys, words with suffixes, a stop-word
\* compound, a word without dictionary entry, a stop word with a suffix,
\* and words that end with two suffixes of the list.
QueryWords ==
  { <<"tae","jae","dae","hag","gyo">>,
    <<"bi","jeon","xi">>,
    <<"mwo","xya">>,
    <<"hag","gyo","xe","seo","neun">>,
    <<"bi","jeon">>,
    <<"V","i","s","i","o","n">>,
    <<"seol","myeong","xeul">>,
    <<"hag","saeng","xeu","ro">>,
    <<"jib","xeu","ro">> }

\* The worked query of the scenario: three words and a question mark.
ScenarioQuery ==
  <<"tae","jae","dae","hag","gyo"," ","bi","jeon","xi"," ","mwo","xya","?">>

\* The longest generated query, in words.
MaxWords == 2

\* Queries of up to MaxWords words separated by one space, as typed or
\* followed by a question mark, and the scenario query.
WordLists == UNION { [1..n -> QueryWords] : n \in 0..MaxWords }

QueryInputs ==
  { Join(ws) \o tail : ws \in WordLists, tail \in { <<>>, <<"?">> } }
    \cup { ScenarioQuery }

(***************************************************************************)
(* The documents table and the SQL the code sends.                         *)
(*                                                                         *)
(* A table is a bag of rows [content, embedding, metadata]; metadata is a  *)
(* record that holds only the keys the document has.  RowsOf tags the      *)
(* copies of equal rows so that each physical row is one element.          *)
(***************************************************************************)

RowsOf(T) ==
  UNION { { [row |-> r, copy |-> i] : i \in 1..T[r] } : r \in DOMAIN T }

SeqToBag(rows) ==
  LET RECURSIVE go(_)
      go(i) == IF i > Len(rows) THEN EmptyBag
               ELSE SetToBag({rows[i]}) (+) go(i + 1)
  IN  go(1)

Min(a, b) == IF a <= b THEN a ELSE b

Abs(a) == IF a < 0 THEN -a ELSE a

\* 1 - (embedding <=> vec): the cosine similarity, in hundredths.
base_similarity(r, vec) == Cosine[Abs(r.row.embedding - vec) + 1]

\* text LIKE pattern on case-folded text: % is any run of characters, _ any
\* one character, a backslash escapes the character after it.
Like(text, pattern) ==
  LET RECURSIVE go(_, _)
      go(i, j) ==
        IF j > Len(pattern) THEN i > Len(text)
        ELSE IF pattern[j] = "%"
             THEN \E n \in i..(Len(text) + 1) : go(n, j + 1)
        ELSE IF pattern[j] = "_"
             THEN i <= Len(text) /\ go(i + 1, j + 1)
        ELSE IF pattern[j] = "\\" /\ j < Len(pattern)
             THEN i <= Len(text) /\ text[i] = pattern[j + 1] /\ go(i + 1, j + 2)
        ELSE i <= Len(text) /\ text[i] = pattern[j] /\ go(i + 1, j + 1)
  IN  go(1, 1)

\* text ILIKE '%kw%'
ILikePattern(text, kw) == Like(Lower(text), <<"%">> \o Lower(kw) \o <<"%">>)

ILike(text, kw) == ILikePattern(text, kw)

\* metadata->>'key' ILIKE '%kw%': NULL, hence not true, when the key is absent.
MetaILike(metadata, key, kw) ==
  key \in DOMAIN metadata /\ ILike(metadata[key], kw)

\* rag_chain.py:221
content_or_meta(r, kw) ==
  \/ ILike(r.row.content, kw)
  \/ MetaILike(r.row.metadata, "filename", kw)
  \/ MetaILike(r.row.metadata, "source", kw)

\* rag_chain.py:223
keyword_conditions(r, keywords) ==
  \E i \in 1..Len(keywords) : content_or_meta(r, keywords[i])

\* rag_chain.py:229
all_match_conditions(r, keywords) ==
  \A i \in 1..Len(keywords) : content_or_meta(r, keywords[i])

\* rag_chain.py:234
keyword_count_expr(r, keywords) ==
  Cardinality({ i \in 1..Len(keywords) : content_or_meta(r, keywords[i]) })

\* The boost constants, in hundredths (rag_chain.py:227, 230).
KeywordBoost == 3

AllMatchBoost == 30

\* Mutant of boost_expr: the all-match term is left out.
boost_expr_NoAllMatch(r, keywords) ==
  KeywordBoost * keyword_count_expr(r, keywords)

\* rag_chain.py:225-232
boost_expr(r, keywords) ==
  KeywordBoost * keyword_count_expr(r, keywords)
  + (IF all_match_conditions(r, keywords) THEN AllMatchBoost ELSE 0)

final_similarity(r, vec, keywords) ==
  base_similarity(r, vec) + boost_expr(r, keywords)

\* ORDER BY key DESC LIMIT n, as a set: every set of rows the statement may
\* keep (rows of equal key come in any order).  key maps each row of S to
\* its sort key.
TopSets(S, key, n) ==
  { P \in SUBSET S :
      /\ Cardinality(P) = Min(n, Cardinality(S))
      /\ \A a \in P : \A b \in S \ P : key[a] >= key[b] }

\* Mutant of TopSeqs: the LIMIT is left out.
TopSeqs_NoLimit(S, key, n) ==
  LET m == Cardinality(S)
  IN  { s \in [1..m -> S] :
          \A i, j \in 1..m : i < j => s[i] # s[j] /\ key[s[i]] >= key[s[j]] }

\* ORDER BY key DESC LIMIT n, as a list: every result list the statement may
\* return.
TopSeqs(S, key, n) ==
  LET m == Min(n, Cardinality(S))
  IN  { s \in [1..m -> S] :
          /\ \A i, j \in 1..m : i < j => s[i] # s[j] /\ key[s[i]] >= key[s[j]]
          /\ \A b \in S \ { s[i] : i \in 1..m } :
               \A i \in 1..m : key[s[i]] >= key[b] }

\* The cap of each candidate pool (LIMIT 50 in the source), scaled down so
\* that tables of a few rows exceed it.
PoolCap == 1

\* WITH semantic AS (... ORDER BY embedding <=> vec LIMIT 50)
semantic(T, vec) ==
  LET rows == RowsOf(T)
  IN  TopSets(rows, [r \in rows |-> base_similarity(r, vec)], PoolCap)

\* keyword AS (... WHERE keyword_conditions ORDER BY keyword_count DESC LIMIT 50)
keyword(T, keywords) ==
  LET rows == { r \in RowsOf(T) : keyword_conditions(r, keywords) }
  IN  TopSets(rows, [r \in rows |-> keyword_count_expr(r, keywords)], PoolCap)

\* Mutant of DistinctOnContent: every row of the pools is kept.
DistinctOnContent_KeepsAll(U, vec) == { U }

\* combined AS (SELECT DISTINCT ON (content) ... ORDER BY content,
\* base_similarity DESC): of the rows of each content, one of the most similar.
DistinctOnContent(U, vec) ==
  LET sim == [r \in U |-> base_similarity(r, vec)]
  IN  { C \in SUBSET U :
          /\ \A r \in U : \E c \in C : c.row.content = r.row.content
          /\ \A c, d \in C : c.row.content = d.row.content => c = d
          /\ \A c \in C : \A r \in U :
               r.row.content = c.row.content => sim[c] >= sim[r] }

combined(T, vec, keywords) ==
  UNION { DistinctOnContent(sem \cup kwd, vec) :
            sem \in semantic(T, vec), kwd \in keyword(T, keywords) }

\* ORDER BY final_similarity DESC LIMIT k over one combined set.
RankCombined(C, vec, keywords, k) ==
  TopSeqs(C, [r \in C |-> final_similarity(r, vec, keywords)], k)

\* The hybrid statement (rag_chain.py:236-266): every list it may return.
HybridQuery(T, vec, keywords, k) ==
  UNION { RankCombined(C, vec, keywords, k) : C \in combined(T, vec, keywords) }

\* The pure vector statement (rag_chain.py:268-273).
VectorQuery(T, vec, k) ==
  LET rows == RowsOf(T)
  IN  TopSeqs(rows, [r \in rows |-> base_similarity(r, vec)], k)

\* rag_chain.py:277-286: the Document list built from the fetched rows.
ToDocuments(rows) ==
  [i \in 1..Len(rows) |->
     [page_content |-> rows[i].row.content, metadata |-> rows[i].row.metadata]]

(***************************************************************************)
(* The shared connection.                                                  *)
(*                                                                         *)
(* db is the module-level _db_connection together with the database it     *)
(* talks to:                                                               *)
(*   store  the committed table;                                           *)
(*   work   the table as the connection's open transaction sees it;        *)
(*   conn   "none" (_db_connection is None), "open", or "closed"           *)
(*          (_db_connection.closed is non-zero);                           *)
(*   alive  whether the server still serves the connection;                *)
(*   txn    "idle", "intrans" (a transaction is open) or "inerror" (the    *)
(*          open transaction is aborted).                                  *)
(* The connection is never put in autocommit mode, so the first statement  *)
(* after a commit or rollback opens a transaction.  Each operation returns *)
(* [ok, db]: whether it returned (rather than raised) and the state after. *)
(***************************************************************************)

\* The state of a connection that was found broken: psycopg2 marks it
\* closed, the server has dropped its transaction.
Broken(db) ==
  [db EXCEPT !.conn = "closed", !.alive = FALSE, !.txn = "idle",
             !.work = db.store]

\* rag_chain.py:21: _db_connection is None or _db_connection.closed
NeedsConnect(db) == db.conn = "none" \/ db.conn = "closed"

\* get_db_connection(); reachable is whether psycopg2.connect succeeds.
\* register_vector runs a query on the new connection, which opens a
\* transaction.
get_db_connection(db, reachable) ==
  IF NeedsConnect(db)
  THEN IF reachable
       THEN [ok |-> TRUE,
             db |-> [db EXCEPT !.conn = "open", !.alive = TRUE,
                               !.txn = "intrans", !.work = db.store]]
       ELSE [ok |-> FALSE, db |-> db]
  ELSE [ok |-> TRUE, db |-> db]

\* conn.rollback(): without an open transaction nothing is sent.
conn_rollback(db) ==
  IF db.conn # "open" THEN [ok |-> FALSE, db |-> db]
  ELSE IF db.txn = "idle" THEN [ok |-> TRUE, db |-> db]
  ELSE IF ~db.alive THEN [ok |-> FALSE, db |-> Broken(db)]
  ELSE [ok |-> TRUE, db |-> [db EXCEPT !.txn = "idle", !.work = db.store]]

\* conn.cursor(): local, fails only on a connection marked closed.
conn_cursor(db) == [ok |-> db.conn = "open", db |-> db]

\* cur.execute(statement): after is the table the statement leaves (the
\* table itself for a SELECT); failing is whether the server rejects the
\* statement.  In an aborted transaction every statement is rejected.
cur_execute(db, after, failing) ==
  IF db.conn # "open" THEN [ok |-> FALSE, db |-> db]
  ELSE IF ~db.alive THEN [ok |-> FALSE, db |-> Broken(db)]
  ELSE IF db.txn = "inerror" THEN [ok |-> FALSE, db |-> db]
  ELSE IF failing THEN [ok |-> FALSE, db |-> [db EXCEPT !.txn = "inerror"]]
  ELSE [ok |-> TRUE, db |-> [db EXCEPT !.txn = "intrans", !.work = after]]

\* conn.commit(): without an open transaction nothing is sent; the commit of
\* an aborted transaction is answered by a rollback and does not raise.
conn_commit(db, failing) ==
  IF db.conn # "open" THEN [ok |-> FALSE, db |-> db]
  ELSE IF db.txn = "idle" THEN [ok |-> TRUE, db |-> db]
  ELSE IF ~db.alive THEN [ok |-> FALSE, db |-> Broken(db)]
  ELSE IF db.txn = "inerror"
       THEN [ok |-> TRUE, db |-> [db EXCEPT !.txn = "idle", !.work = db.store]]
  ELSE IF failing
       THEN [ok |-> FALSE, db |-> [db EXCEPT !.txn = "idle", !.work = db.store]]
  ELSE [ok |-> TRUE, db |-> [db EXCEPT !.txn = "idle", !.store = db.work]]

\* if _db_connection: _db_connection.rollback()   (rag_chain.py:321-322)
RollbackIfConnection(db) ==
  IF db.conn = "none" THEN [ok |-> TRUE, db |-> db] ELSE conn_rollback(db)

(***************************************************************************)
(* The store operations of rag_chain.py, each as one call on the state db. *)
(* fault is what goes wrong during the call: "none", "connect"             *)
(* (psycopg2.connect raises), "execute" (the server rejects the            *)
(* statement) or "commit" (the commit raises).  An outcome is the state    *)
(* after the call and how the call ended: status "ok" with the value       *)
(* returned, or "raised" with the exception in exc.                        *)
(***************************************************************************)

Returned(db, value) ==
  [db |-> db, status |-> "ok", exc |-> "", value |-> value]

Raised(db, exc) ==
  [db |-> db, status |-> "raised", exc |-> exc, value |-> <<>>]

RemoteCalls(log) ==
  Cardinality({ i \in 1..Len(log) : log[i].kind = "call" })

\* Mutant of InsertData: the loop stops one document early.
InsertData_DropsLast(documents, embeddings) ==
  [i \in 1..(Min(Len(documents), Len(embeddings)) - 1) |->
     [content |-> documents[i].page_content,
      embedding |-> embeddings[i],
      metadata |-> documents[i].metadata]]

\* rag_chain.py:79-85: data, one tuple per (document, embedding) pair of zip.
InsertData(documents, embeddings) ==
  [i \in 1..Min(Len(documents), Len(embeddings)) |->
     [content |-> documents[i].page_content,
      embedding |-> embeddings[i],
      metadata |-> documents[i].metadata]]

\* The except clause of add_documents_to_vectorstore (rag_chain.py:95-97):
\* roll back, then raise the wrapped error; a rollback that raises
\* propagates its own exception.
AddFailed(db) ==
  LET rb == conn_rollback(db)
  IN  IF rb.ok THEN Raised(rb.db, "DatabaseError")
      ELSE Raised(rb.db, "StoreError")

add_documents_to_vectorstore(db, documents, fails, fault) ==
  IF documents = <<>> THEN Returned(db, 0) @@ [calls |-> 0]
  ELSE
    LET texts == [i \in 1..Len(documents) |-> documents[i].page_content]
        e == embed_texts(texts, DefaultMaxRetries, fails)
        got == get_db_connection(db, fault # "connect")
        cur == conn_cursor(got.db)
        ins == cur_execute(cur.db,
                           cur.db.work (+) SeqToBag(InsertData(documents, e.value)),
                           fault = "execute")
        com == conn_commit(ins.db, fault = "commit")
        out == IF e.raised THEN Raised(db, "EmbeddingFailure")
               ELSE IF ~got.ok THEN Raised(got.db, "StoreError")
               ELSE IF ~cur.ok THEN Raised(cur.db, "StoreError")
               ELSE IF ~ins.ok THEN AddFailed(ins.db)
               ELSE IF ~com.ok THEN AddFailed(com.db)
               ELSE Returned(com.db, Len(documents))
    IN  out @@ [calls |-> RemoteCalls(e.log)]

\* The rows the search statement may return (rag_chain.py:220-275).
SearchRows(T, vec, keywords, k) ==
  IF keywords # <<>> THEN HybridQuery(T, vec, keywords, k)
  ELSE VectorQuery(T, vec, k)

\* Mutant of search_similar_documents: the connection is acquired and rolled
\* back before the query is embedded.
search_similar_documents_ConnectsFirst(db, query, k, fails, fault) ==
  LET query_embedding ==
        embed_query(QueryMemo[query].expanded, DefaultMaxRetries, fails)
      got == get_db_connection(db, fault # "connect")
      rb == conn_rollback(got.db)
      cur == conn_cursor(rb.db)
      sel == cur_execute(cur.db, cur.db.work, fault = "execute")
  IN  IF ~got.ok THEN { Raised(got.db, "StoreError") }
      ELSE IF ~rb.ok THEN { Raised(rb.db, "StoreError") }
      ELSE IF query_embedding.raised
      THEN { Raised(rb.db, query_embedding.exc) }
      ELSE IF ~cur.ok THEN { Raised(cur.db, "StoreError") }
      ELSE IF ~sel.ok THEN { Returned(sel.db, <<>>) }
      ELSE { Returned(sel.db, ToDocuments(rows)) :
               rows \in SearchRows(sel.db.work, query_embedding.value,
                                   QueryMemo[query].keywords, k) }

\* search_similar_documents(query, api_key, k): the set of its outcomes (the
\* statement may order rows of equal score either way).
search_similar_documents(db, query, k, fails, fault) ==
  LET expanded_query == QueryMemo[query].expanded
      query_embedding == embed_query(expanded_query, DefaultMaxRetries, fails)
      keywords == QueryMemo[query].keywords
      got == get_db_connection(db, fault # "connect")
      rb == conn_rollback(got.db)
      cur == conn_cursor(rb.db)
      sel == cur_execute(cur.db, cur.db.work, fault = "execute")
  IN  IF query_embedding.raised THEN { Raised(db, query_embedding.exc) }
      ELSE IF ~got.ok THEN { Raised(got.db, "StoreError") }
      ELSE IF ~rb.ok THEN { Raised(rb.db, "StoreError") }
      ELSE IF ~cur.ok THEN { Raised(cur.db, "StoreError") }
      ELSE IF ~sel.ok THEN { Returned(sel.db, <<>>) }
      ELSE { Returned(sel.db, ToDocuments(rows)) :
               rows \in SearchRows(sel.db.work, query_embedding.value,
                                   keywords, k) }

\* get_document_count(api_key): every exception is swallowed into 0.
get_document_count(db, fault) ==
  LET got == get_db_connection(db, fault # "connect")
      cur == conn_cursor(got.db)
      sel == cur_execute(cur.db, cur.db.work, fault = "execute")
  IN  IF ~got.ok THEN Returned(got.db, 0)
      ELSE IF ~cur.ok THEN Returned(cur.db, 0)
      ELSE IF ~sel.ok THEN Returned(sel.db, 0)
      ELSE Returned(sel.db, BagCardinality(sel.db.work))

LegacyTypes == { "pdf", "docx", "pptx", "xlsx" }

\* UPDATE documents SET metadata = jsonb_set(metadata, '{type}', '"file"')
\* WHERE metadata->>'type' IN ('pdf', 'docx', 'pptx', 'xlsx')
MigratedRow(r) ==
  IF "type" \in DOMAIN r.metadata /\ r.metadata.type \in LegacyTypes
  THEN [r EXCEPT !.metadata = [r.metadata EXCEPT !.type = "file"]]
  ELSE r

\* The table after the UPDATE.
MigratedRows(T) ==
  LET RECURSIVE go(_)
      go(S) == IF S = {} THEN EmptyBag
               ELSE LET r == CHOOSE x \in S : TRUE
                    IN  SetToBag({MigratedRow(r.row)}) (+) go(S \ {r})
  IN  go(RowsOf(T))

\* The rows of table T that are in D, with their copies.
RowsWhere(T, D) == [r \in D \cap DOMAIN T |-> T[r]]

\* The table a statement of the call works on: the connection's view once
\* the call holds its connection and cursor.
TableSeen(db, fault) ==
  conn_cursor(get_db_connection(db, fault # "connect").db).db.work

\* The except clause shared by migrate_file_types, clear_vectorstore and
\* clear_vectorstore_by_type: roll back if there is a connection object; a
\* rollback that raises propagates its own exception.
WriteFailed(db, exc, swallow) ==
  LET rb == RollbackIfConnection(db)
  IN  IF ~rb.ok THEN Raised(rb.db, "StoreError")
      ELSE IF swallow THEN Returned(rb.db, <<>>)
      ELSE Raised(rb.db, exc)

\* try: get_db_connection, cursor, execute, commit, as the three writers do.
WriteStatement(db, after, value, fault, exc, swallow) ==
  LET got == get_db_connection(db, fault # "connect")
      cur == conn_cursor(got.db)
      upd == cur_execute(cur.db, after, fault = "execute")
      com == conn_commit(upd.db, fault = "commit")
  IN  IF ~got.ok THEN WriteFailed(got.db, exc, swallow)
      ELSE IF ~cur.ok THEN WriteFailed(cur.db, exc, swallow)
      ELSE IF ~upd.ok THEN WriteFailed(upd.db, exc, swallow)
      ELSE IF ~com.ok THEN WriteFailed(com.db, exc, swallow)
      ELSE Returned(com.db, value)

\* migrate_file_types(): returns None, swallows the exceptions of its try.
migrate_file_types(db, fault) ==
  WriteStatement(db, MigratedRows(TableSeen(db, fault)), <<>>,
                 fault, "", TRUE)

\* clear_vectorstore(api_key)
clear_vectorstore(db, fault) ==
  WriteStatement(db, EmptyBag, <<>>, fault, "ClearFailed", FALSE)

\* Mutant of HasType: the comparison with doc_type is left out.
HasType_AnyType(r, doc_type) == "type" \in DOMAIN r.metadata

\* WHERE metadata->>'type' = %s
HasType(r, doc_type) ==
  "type" \in DOMAIN r.metadata /\ r.metadata.type = doc_type

\* clear_vectorstore_by_type(doc_type): returns cur.rowcount.
clear_vectorstore_by_type(db, doc_type, fault) ==
  LET T == TableSeen(db, fault)
      deleted == { r \in DOMAIN T : HasType(r, doc_type) }
  IN  WriteStatement(db, RowsWhere(T, DOMAIN T \ deleted),
                     BagCardinality(RowsWhere(T, deleted)),
                     fault, "ClearByTypeFailed", FALSE)

\* COALESCE(metadata->>'type', 'unknown')
DocType(r) == IF "type" \in DOMAIN r.metadata THEN r.metadata.type ELSE "unknown"

\* Mutant of CountsByType: equal rows are counted once.
CountsByType_DistinctRows(T) ==
  LET types == { DocType(r) : r \in DOMAIN T }
      cnt == [t \in types |-> Cardinality({ r \in DOMAIN T : DocType(r) = t })]
  IN  { [i \in 1..Cardinality(types) |-> <<s[i], cnt[s[i]]>>] :
          s \in TopSeqs(types, cnt, Cardinality(types)) }

\* SELECT doc_type, COUNT(*) ... GROUP BY doc_type ORDER BY cnt DESC: every
\* list of (type, count) rows the statement may return.
CountsByType(T) ==
  LET types == { DocType(r) : r \in DOMAIN T }
      cnt == [t \in types |->
                BagCardinality(RowsWhere(T, { r \in DOMAIN T : DocType(r) = t }))]
  IN  { [i \in 1..Cardinality(types) |-> <<s[i], cnt[s[i]]>>] :
          s \in TopSeqs(types, cnt, Cardinality(types)) }

\* get_document_counts_by_type(): the dict built from the rows, in their
\* order; every exception is swallowed into {}.
get_document_counts_by_type(db, fault) ==
  LET got == get_db_connection(db, fault # "connect")
      cur == conn_cursor(got.db)
      sel == cur_execute(cur.db, cur.db.work, fault = "execute")
  IN  IF ~got.ok THEN { Returned(got.db, <<>>) }
      ELSE IF ~cur.ok THEN { Returned(cur.db, <<>>) }
      ELSE IF ~sel.ok THEN { Returned(sel.db, <<>>) }
      ELSE { Returned(sel.db, rows) : rows \in CountsByType(sel.db.work) }
(***************************************************************************)
(* File ingestion (src/ingest.py) and the context text built from the      *)
(* retrieved documents.                                                    *)
(***************************************************************************)

\* Python: str(n) for a natural number n.
Str(n) ==
  LET digits == <<"0","1","2","3","4","5","6","7","8","9">>
      RECURSIVE go(_)
      go(m) == IF m < 10 THEN <<digits[m + 1]>>
               ELSE go(m \div 10) \o <<digits[(m % 10) + 1]>>
  IN  go(n)

\* load_file(uploaded_file) (ingest.py:458-483) with the loader it picks:
\* load_pdf (29-41), load_docx (44-52), load_pptx (55-68), load_xlsx
\* (71-86).  An uploaded file is [name, units]: its pages, paragraphs,
\* slides or sheets in order, each [text, title] (title: the sheet name).
\* The result is [status, exc, value].
load_file(uploaded_file) ==
  LET name == uploaded_file.name
      units == uploaded_file.units
      dots == SelectSeq([i \in 1..Len(name) |-> i], LAMBDA i : name[i] = ".")
      file_extension ==
        Lower(SubSeq(name, (IF dots = <<>> THEN 0 ELSE dots[Len(dots)]) + 1,
                     Len(name)))
      tmp_path == <<"/","t","m","p","/","t","m","p",".">> \o file_extension
      HasText(i) == ~(RangeOf(units[i].text) \subseteq Whitespace)
      kept == SelectSeq([i \in 1..Len(units) |-> i], LAMBDA i : HasText(i))
      paragraphs == SelectSeq([i \in 1..Len(units) |-> i],
                              LAMBDA i : units[i].text # <<>>)
      RECURSIVE joined(_)
      joined(n) == IF n > Len(paragraphs) THEN <<>>
                   ELSE (IF n = 1 THEN <<>> ELSE <<"\n">>)
                          \o units[paragraphs[n]].text \o joined(n + 1)
      Tagged(md) == md @@ [filename |-> name]
      Ok(documents) == [status |-> "ok", exc |-> "", value |-> documents]
      Error == [status |-> "raised", exc |-> "ValueError", value |-> <<>>]
  IN  IF file_extension = <<"p","d","f">>
      THEN IF kept = <<>> THEN Error
           ELSE Ok([n \in 1..Len(kept) |->
                      [page_content |-> units[kept[n]].text,
                       metadata |-> Tagged([source |-> tmp_path, page |-> kept[n],
                                            type |-> "file"])]])
      ELSE IF file_extension \in { <<"d","o","c">>, <<"d","o","c","x">> }
      THEN IF RangeOf(joined(1)) \subseteq Whitespace THEN Error
           ELSE Ok(<< [page_content |-> joined(1),
                       metadata |-> Tagged([source |-> tmp_path, type |-> "file"])] >>)
      ELSE IF file_extension \in { <<"p","p","t">>, <<"p","p","t","x">> }
      THEN Ok([n \in 1..Len(paragraphs) |->
                 [page_content |-> units[paragraphs[n]].text,
                  metadata |-> Tagged([source |-> tmp_path, slide |-> paragraphs[n],
                                       type |-> "file"])]])
      ELSE IF file_extension \in { <<"x","l","s">>, <<"x","l","s","x">> }
      THEN Ok([n \in 1..Len(kept) |->
                 [page_content |-> units[kept[n]].text,
                  metadata |-> Tagged([source |-> tmp_path,
                                       sheet |-> units[kept[n]].title,
                                       type |-> "file"])]])
      ELSE Error

\* format_docs(docs) (rag_chain.py:373-388)
format_docs(docs) ==
  LET Get(md, key, default) == IF key \in DOMAIN md THEN md[key] ELSE default
      formatted(i) ==
        LET md == docs[i].metadata
            source == Get(md, "filename", Get(md, "source", <<"U","n","k","n","o","w","n">>))
            doc_type == Get(md, "type", "unknown")
            extra_info ==
              IF doc_type = "pdf"
              THEN <<","," ","P","a","g","e"," ">> \o (IF "page" \in DOMAIN md THEN Str(md.page) ELSE <<"N","/","A">>)
              ELSE IF doc_type = "pptx"
              THEN <<","," ","S","l","i","d","e"," ">> \o (IF "slide" \in DOMAIN md THEN Str(md.slide) ELSE <<"N","/","A">>)
              ELSE IF doc_type = "xlsx"
              THEN <<","," ","S","h","e","e","t",":"," ">> \o Get(md, "sheet", <<"N","/","A">>)
              ELSE <<>>
        IN  <<"[","S","o","u","r","c","e"," ">> \o Str(i) \o <<":"," ">> \o source \o extra_info
              \o <<"]", "\n">> \o docs[i].page_content
      RECURSIVE join(_)
      join(i) == IF i > Len(docs) THEN <<>>
                 ELSE (IF i = 1 THEN <<>> ELSE <<"\n","\n","-","-","-","\n","\n">>) \o formatted(i) \o join(i + 1)
  IN  join(1)

(***************************************************************************)
(* The crawler (src/ingest.py).  A URL is the sequence of its characters.  *)
(***************************************************************************)

\* Python: s.find(p) + 1, that is, 0 when p does not occur in s.
Find(s, p) ==
  LET at == { i \in 1..(Len(s) - Len(p) + 1) : SubSeq(s, i, i + Len(p) - 1) = p }
  IN  IF at = {} THEN 0 ELSE CHOOSE i \in at : \A j \in at : i <= j

\* Python: s.startswith(p)
StartsWith(s, p) == Len(p) <= Len(s) /\ SubSeq(s, 1, Len(p)) = p

\* Python: None
None == <<"None">>

\* urllib.parse.urlparse(url), its scheme, netloc and path: the scheme ends
\* at "://", the netloc at the next "/", "?" or "#", the path at the next
\* "?" or "#".  A text without "://" has neither scheme nor netloc.
urlparse(url) ==
  LET Upto(s, stops) ==
        LET Cut(at) == IF at = {} THEN s
                       ELSE SubSeq(s, 1, (CHOOSE i \in at : \A j \in at : i <= j) - 1)
        IN  Cut({ i \in 1..Len(s) : s[i] \in stops })
      Parsed(scheme, netloc, after) ==
        [scheme |-> scheme, netloc |-> netloc,
         path |-> Upto(SubSeq(after, Len(netloc) + 1, Len(after)), { "?", "#" })]
      After(sep, after) ==
        IF sep = 0 THEN Parsed(<<>>, <<>>, after)
        ELSE Parsed(SubSeq(url, 1, sep - 1), Upto(after, { "/", "?", "#" }), after)
      At(sep) == After(sep, IF sep = 0 THEN url ELSE SubSeq(url, sep + 3, Len(url)))
  IN  At(Find(url, <<":","/","/">>))

\* get_base_domain(url) (ingest.py:89-93)
get_base_domain(url) ==
  LET Base(parsed) == parsed.scheme \o <<":","/","/">> \o parsed.netloc
  IN  Base(urlparse(url))

\* urllib.parse.urljoin(base, url) for a reference that is absolute, begins
\* with "/", or is relative to the directory of the base path.  Dot
\* segments and empty segments are kept as they are; the relative
\* references of the site have neither.
urljoin(base, url) ==
  LET Dir(path, slashes) ==
        IF slashes = {} THEN <<"/">>
        ELSE SubSeq(path, 1, CHOOSE i \in slashes : \A j \in slashes : j <= i)
      Joined(b) ==
        IF url[1] = "/" THEN b.scheme \o <<":","/","/">> \o b.netloc \o url
        ELSE b.scheme \o <<":","/","/">> \o b.netloc
               \o Dir(b.path, { i \in 1..Len(b.path) : b.path[i] = "/" }) \o url
  IN  IF url = <<>> THEN base
      ELSE IF Find(url, <<":","/","/">>) > 0 THEN url
      ELSE Joined(urlparse(base))

\* normalize_url(base_url, href) (ingest.py:96-110)
normalize_url(base_url, href) ==
  LET Stripped(normalized) ==
        IF EndsWith(normalized, <<"/">>)
        THEN SubSeq(normalized, 1, Len(normalized) - 1)
        ELSE normalized
      Normalized(parsed) ==
        Stripped(parsed.scheme \o <<":","/","/">> \o parsed.netloc \o parsed.path)
  IN  IF \/ href = <<>>
         \/ \E p \in { <<"#">>, <<"j","a","v","a","s","c","r","i","p","t",":">>, <<"m","a","i","l","t","o",":">>, <<"t","e","l",":">> } : StartsWith(href, p)
      THEN None
      ELSE Normalized(urlparse(urljoin(base_url, href)))

\* max_consecutive_errors = 5
max_consecutive_errors == 5

\* driver_restart_interval = 10
driver_restart_interval == 10

\* ingest.py:271-274 and 335-338: the links of a page appended to to_visit.
ExtendToVisit(to_visit, links, base_domain, visited) ==
  LET skipped == { <<".","p","d","f">>, <<".","j","p","g">>, <<".","p","n","g">>, <<".","g","i","f">>, <<".","z","i","p">>, <<".","m","p","4">>, <<".","m","p","3">>, <<".","h","w","p">> }
      RECURSIVE loop(_, _)
      loop(i, queue) ==
        IF i > Len(links) THEN queue
        ELSE LET link == links[i]
             IN  IF /\ StartsWith(link, base_domain)
                    /\ link \notin visited
                    /\ ~(\E ext \in skipped : Contains(Lower(link), ext))
                    /\ link \notin RangeOf(queue)
                 THEN loop(i + 1, Append(queue, link))
                 ELSE loop(i + 1, queue)
  IN  loop(1, to_visit)


(***************************************************************************)
(* The state machine: calls of the store operations, one after the other,  *)
(* on the shared connection, and the server dropping the connection        *)
(* between two calls.                                                      *)
(***************************************************************************)

VARIABLES
  db,     \* the shared connection and the database behind it
  ret,    \* the last call: its arguments, the state before, its outcome
  sess,   \* the calls in progress of two concurrent sessions
  chat,   \* st.session_state of one chat session, and what its page shows
  crawl   \* the call of crawl_website in progress, what it fetched and reported

vars == <<db, ret, sess, chat, crawl>>

\* Bounds of the model.
MaxDocs == 2

MaxBatch == 2

MaxK == 3

MaxRetries == 2

MaxRows == 3

\* k: int = 12
DefaultK == 12

Batches == UNION { [1..n -> DocPool] : n \in 0..MaxBatch }

\* What the embedding service does with the texts of one call under the
\* default retry bound: it answers every text at once, or it answers all
\* but one text, which it fails on every attempt.
ProviderFailures(n) ==
  { [i \in 1..n |-> 0] }
    \cup { [i \in 1..n |-> IF i = j THEN DefaultMaxRetries ELSE 0] : j \in 1..n }

Faults == { "none", "connect", "execute", "commit" }

ReadFaults == { "none", "connect", "execute" }

DocTypes == { "file", "news", "pdf" }

\* A fault the call can meet: a connect fault needs a connect, and the
\* store is not reached when the embedding fails.
Meets(fault, fails) ==
  /\ fault = "connect" => NeedsConnect(db)
  /\ (\E i \in DOMAIN fails : fails[i] # 0) => fault = "none"

NoFailures == <<>>

InitDb ==
  [store |-> EmptyBag, work |-> EmptyBag, conn |-> "none", alive |-> FALSE,
   txn |-> "idle"]

\* No call in progress.
Idle == [pc |-> "idle"]

InitSess == [writer |-> Idle, reader |-> Idle]

\* app.py:61-65: messages and sources start empty.  shown is what the last
\* run of the script rendered in the chat area; retrieved records, for each
\* message, the documents retrieved to produce it (none for a user message).
InitChat ==
  [messages |-> <<>>, sources |-> <<>>, shown |-> <<>>, retrieved |-> <<>>]

\* No crawl in progress.
NoCrawl == [pc |-> "idle"]

Init ==
  /\ db = InitDb
  /\ ret = [op |-> "none"]
  /\ sess = InitSess
  /\ chat = InitChat
  /\ crawl = NoCrawl

Call(op, args, fault, o) ==
  /\ db' = o.db
  /\ ret' = [op |-> op, args |-> args, fault |-> fault, pre |-> db,
             status |-> o.status, exc |-> o.exc, value |-> o.value]
  /\ UNCHANGED <<sess, chat, crawl>>

AddDocuments ==
  \E documents \in Batches, fault \in Faults :
    \E fails \in ProviderFailures(Len(documents)) :
      /\ BagCardinality(db.store) + Len(documents) <= MaxDocs
      /\ Meets(fault, fails)
      /\ LET o == add_documents_to_vectorstore(db, documents, fails, fault)
         IN  Call("add", [documents |-> documents, calls |-> o.calls], fault, o)

Search ==
  \E query \in Queries, fault \in ReadFaults :
    \E fails \in ProviderFailures(1) :
      /\ Meets(fault, fails)
      /\ \E o \in search_similar_documents(db, query, DefaultK, fails, fault) :
           Call("search", [query |-> query, k |-> DefaultK, fails |-> fails],
                fault, o)

Count ==
  \E fault \in ReadFaults :
    /\ Meets(fault, NoFailures)
    /\ Call("count", <<>>, fault, get_document_count(db, fault))

CountsByTypeCall ==
  \E fault \in ReadFaults :
    /\ Meets(fault, NoFailures)
    /\ \E o \in get_document_counts_by_type(db, fault) :
         Call("counts_by_type", <<>>, fault, o)

Migrate ==
  \E fault \in Faults :
    /\ Meets(fault, NoFailures)
    /\ Call("migrate", <<>>, fault, migrate_file_types(db, fault))

Clear ==
  \E fault \in Faults :
    /\ Meets(fault, NoFailures)
    /\ Call("clear", <<>>, fault, clear_vectorstore(db, fault))

ClearByType ==
  \E doc_type \in DocTypes, fault \in Faults :
    /\ Meets(fault, NoFailures)
    /\ Call("clear_by_type", [doc_type |-> doc_type], fault,
            clear_vectorstore_by_type(db, doc_type, fault))

\* The server drops the connection (restart, idle timeout); the client
\* has not noticed: _db_connection.closed is still 0.
ServerDropsConnection ==
  /\ db.conn = "open" /\ db.alive
  /\ db' = [db EXCEPT !.alive = FALSE, !.work = db.store]
  /\ ret' = [op |-> "drop"]
  /\ UNCHANGED <<sess, chat, crawl>>

Next ==
  \/ AddDocuments
  \/ Search
  \/ Count
  \/ CountsByTypeCall
  \/ Migrate
  \/ Clear
  \/ ClearByType
  \/ ServerDropsConnection

Spec == Init /\ [][Next]_vars


(***************************************************************************)
(* Searches with every k on every table: the search statement as a         *)
(* function of the table, the query and k.                                 *)
(***************************************************************************)

\* The rows add_documents_to_vectorstore stores for a list of documents.
StoredRows(documents) ==
  InsertData(documents,
             [i \in 1..Len(documents) |-> embed_content(documents[i].page_content)])

\* The tables of at most MaxRows rows.
Tables ==
  { SeqToBag(StoredRows(b)) : b \in UNION { [1..n -> SearchDocs] : n \in 0..MaxRows } }

\* The connection after a committed insert, over each table.
InitSearch ==
  /\ db \in { [store |-> T, work |-> T, conn |-> "open", alive |-> TRUE,
               txn |-> "idle"] : T \in Tables }
  /\ ret = [op |-> "none"]
  /\ sess = InitSess
  /\ chat = InitChat
  /\ crawl = NoCrawl

SearchK ==
  \E query \in Queries, k \in 0..MaxK :
    \E o \in search_similar_documents(db, query, k, <<0>>, "none") :
      Call("search", [query |-> query, k |-> k], "none", o)

NextSearch == SearchK

SpecSearch == InitSearch /\ [][NextSearch]_vars

(***************************************************************************)
(* Calls of embed_texts and embed_query with every retry bound.            *)
(***************************************************************************)

Texts == { d.page_content : d \in DocPool } \cup Queries

TextBatches == UNION { [1..n -> Texts] : n \in 0..MaxBatch }

RetryBounds == 0..MaxRetries

\* What the embedding service may do with each text: the number of
\* consecutive failing calls, up to the retry bound.
ServiceFailures(n, max_retries) ==
  [1..n -> 0..(IF max_retries > 0 THEN max_retries ELSE 0)]

\* The arguments of one call and what the service does with them.
EmbedInputs ==
  UNION { { [op |-> "input", texts |-> texts, max_retries |-> max_retries,
             fails |-> fails] :
              fails \in ServiceFailures(Len(texts), max_retries) } :
          texts \in TextBatches, max_retries \in RetryBounds }

InitEmbed ==
  /\ db = InitDb
  /\ sess = InitSess
  /\ chat = InitChat
  /\ crawl = NoCrawl
  /\ ret \in EmbedInputs

EmbedTextsCall ==
  /\ ret.op = "input"
  /\ LET r == embed_texts(ret.texts, ret.max_retries, ret.fails)
     IN  ret' = [op |-> "embed_texts", texts |-> ret.texts,
                 max_retries |-> ret.max_retries, fails |-> ret.fails,
                 raised |-> r.raised, value |-> r.value,
                 error |-> r.error, log |-> r.log]
  /\ UNCHANGED <<db, sess, chat, crawl>>

EmbedQueryCall ==
  /\ ret.op = "input"
  /\ Len(ret.texts) = 1
  /\ LET r == embed_query(ret.texts[1], ret.max_retries, ret.fails)
     IN  ret' = [op |-> "embed_query", texts |-> ret.texts,
                 max_retries |-> ret.max_retries, fails |-> ret.fails,
                 raised |-> r.raised, exc |-> r.exc, value |-> r.value,
                 log |-> r.log]
  /\ UNCHANGED <<db, sess, chat, crawl>>

NextEmbed ==
  \/ EmbedTextsCall
  \/ EmbedQueryCall

SpecEmbed == InitEmbed /\ [][NextEmbed]_vars


(***************************************************************************)
(* Two sessions of the same process on the shared connection: one inserts, *)
(* the other searches.  Each session runs in its own thread; a step is the *)
(* code between two calls on the connection that reach the server.         *)
(***************************************************************************)

\* The connection as migrate_file_types leaves it at start-up.
InitConc ==
  /\ db = [store |-> EmptyBag, work |-> EmptyBag, conn |-> "open",
           alive |-> TRUE, txn |-> "idle"]
  /\ ret = [op |-> "none"]
  /\ sess = InitSess
  /\ chat = InitChat
  /\ crawl = NoCrawl

Return(op, args, pre, o) ==
  /\ db' = o.db
  /\ ret' = [op |-> op, args |-> args, fault |-> "none", pre |-> pre,
             status |-> o.status, exc |-> o.exc, value |-> o.value]
  /\ UNCHANGED <<chat, crawl>>

\* add_documents_to_vectorstore up to cur = conn.cursor() (rag_chain.py:69-76).
AddBegin ==
  /\ sess.writer.pc = "idle"
  /\ \E documents \in Batches :
       \E fails \in { [i \in 1..Len(documents) |-> 0] } :
         /\ BagCardinality(db.work) + Len(documents) <= MaxDocs
         /\ LET texts == [i \in 1..Len(documents) |-> documents[i].page_content]
                e == embed_texts(texts, DefaultMaxRetries, fails)
                got == get_db_connection(db, TRUE)
                cur == conn_cursor(got.db)
                args == [documents |-> documents, calls |-> RemoteCalls(e.log)]
            IN  IF documents = <<>>
                THEN Return("add", [documents |-> documents, calls |-> 0],
                            [store |-> db.store],
                            Returned(db, 0)) /\ UNCHANGED <<sess, chat, crawl>>
                ELSE IF e.raised
                THEN Return("add", args, [store |-> db.store],
                            Raised(db, "EmbeddingFailure"))
                     /\ UNCHANGED <<sess, chat, crawl>>
                ELSE IF ~cur.ok
                THEN Return("add", args, [store |-> db.store],
                            Raised(cur.db, "StoreError"))
                     /\ UNCHANGED <<sess, chat, crawl>>
                ELSE /\ db' = cur.db
                     /\ sess' = [sess EXCEPT !.writer =
                                   [pc |-> "execute", args |-> args, pre |-> [store |-> db.store],
                                    data |-> InsertData(documents, e.value)]]
                     /\ UNCHANGED <<ret, chat, crawl>>

\* execute_values(cur, "INSERT ...", data) (rag_chain.py:78-92).
AddExecute ==
  /\ sess.writer.pc = "execute"
  /\ LET w == sess.writer
         ins == cur_execute(db, db.work (+) SeqToBag(w.data), FALSE)
     IN  IF ins.ok
         THEN /\ db' = ins.db
              /\ sess' = [sess EXCEPT !.writer.pc = "commit"]
              /\ UNCHANGED <<ret, chat, crawl>>
         ELSE /\ Return("add", w.args, w.pre, AddFailed(ins.db))
              /\ sess' = [sess EXCEPT !.writer = Idle]

\* conn.commit(); return len(documents) (rag_chain.py:93-99).
AddCommit ==
  /\ sess.writer.pc = "commit"
  /\ LET w == sess.writer
         com == conn_commit(db, FALSE)
     IN  /\ Return("add", w.args, w.pre,
                   IF com.ok THEN Returned(com.db, Len(w.args.documents))
                   ELSE AddFailed(com.db))
         /\ sess' = [sess EXCEPT !.writer = Idle]

\* search_similar_documents up to cur = conn.cursor() (rag_chain.py:208-215).
SearchBegin ==
  /\ sess.reader.pc = "idle"
  /\ \E query \in Queries :
       \E fails \in { <<0>> } :
         LET query_embedding ==
               embed_query(QueryMemo[query].expanded, DefaultMaxRetries, fails)
             got == get_db_connection(db, TRUE)
             rb == conn_rollback(got.db)
             cur == conn_cursor(rb.db)
             args == [query |-> query, k |-> DefaultK]
         IN  IF query_embedding.raised
             THEN Return("search", args, [store |-> db.store],
                         Raised(db, query_embedding.exc))
                  /\ UNCHANGED <<sess, chat, crawl>>
             ELSE IF ~rb.ok \/ ~cur.ok
             THEN Return("search", args, [store |-> db.store],
                         Raised(cur.db, "StoreError"))
                  /\ UNCHANGED <<sess, chat, crawl>>
             ELSE /\ db' = cur.db
                  /\ sess' = [sess EXCEPT !.reader =
                                [pc |-> "execute", args |-> args, pre |-> [store |-> db.store],
                                 query_embedding |-> query_embedding.value,
                                 keywords |-> QueryMemo[query].keywords]]
                  /\ UNCHANGED <<ret, chat, crawl>>

\* The try block of search_similar_documents (rag_chain.py:217-291).
SearchExecute ==
  /\ sess.reader.pc = "execute"
  /\ LET r == sess.reader
         sel == cur_execute(db, db.work, FALSE)
     IN  /\ IF ~sel.ok
            THEN Return("search", r.args, r.pre, Returned(sel.db, <<>>))
            ELSE \E rows \in SearchRows(sel.db.work, r.query_embedding,
                                        r.keywords, r.args.k) :
                   Return("search", r.args, r.pre,
                          Returned(sel.db, ToDocuments(rows)))
         /\ sess' = [sess EXCEPT !.reader = Idle]

NextConc ==
  \/ AddBegin
  \/ AddExecute
  \/ AddCommit
  \/ SearchBegin
  \/ SearchExecute

SpecConc == InitConc /\ [][NextConc]_vars


(***************************************************************************)
(* Calls of expand_query and extract_keywords on every query of            *)
(* QueryInputs, and extract_keywords once more on the space-joined result. *)
(***************************************************************************)

InitQuery ==
  /\ db = InitDb
  /\ sess = InitSess
  /\ chat = InitChat
  /\ crawl = NoCrawl
  /\ ret \in { [op |-> "input", query |-> q] : q \in QueryInputs }

ExpandQueryCall ==
  /\ ret.op = "input"
  /\ ret' = [op |-> "expand_query", query |-> ret.query,
             value |-> expand_query(ret.query)]
  /\ UNCHANGED <<db, sess, chat, crawl>>

\* The record of one extract_keywords call: the list built by the loop and
\* the list returned; from is the keyword list the query was joined from.
Extracted(query, from) ==
  [op |-> "extract_keywords", query |-> query, from |-> from,
   emitted |-> keywords_emitted(query), value |-> extract_keywords(query)]

ExtractKeywordsCall ==
  /\ ret.op = "input"
  /\ ret' = Extracted(ret.query, <<>>)
  /\ UNCHANGED <<db, sess, chat, crawl>>

ExtractAgainCall ==
  /\ ret.op = "extract_keywords"
  /\ ret.from = <<>>
  /\ ret.value # <<>>
  /\ ret' = Extracted(Join(ret.value), ret.value)
  /\ UNCHANGED <<db, sess, chat, crawl>>

NextQuery ==
  \/ ExpandQueryCall
  \/ ExtractKeywordsCall
  \/ ExtractAgainCall

SpecQuery == InitQuery /\ [][NextQuery]_vars

(***************************************************************************)
(* The score the keyword branch of search_similar_documents gives to two   *)
(* stored rows under one query.                                            *)
(***************************************************************************)

\* The stored row of each document, and a second row of the same content
\* whose embedding was computed when the embedding service returned another
\* vector for the text.
ScoreRows ==
  LET fresh == UNION { RowsOf(SeqToBag(StoredRows(<<d>>))) : d \in ScoreDocs }
  IN  fresh \cup
        { [r EXCEPT !.row.embedding = (@ + 1) % Cardinality(Vectors)] :
            r \in { f \in fresh : f.row.content = <<"bi","jeon">> } }

InitScore ==
  /\ db = InitDb
  /\ sess = InitSess
  /\ chat = InitChat
  /\ crawl = NoCrawl
  /\ ret \in { [op |-> "input", query |-> q, a |-> a, b |-> b] :
                 q \in ScoreQueries, a \in ScoreRows, b \in ScoreRows }

\* The keyword branch of search_similar_documents over the table that holds
\* rows a and b: the score of each row with the terms it is made of, the
\* two candidate pools, the merged set, and the rows fetched with their
\* final_similarity column.
ScoreCall ==
  /\ ret.op = "input"
  /\ LET keywords == QueryMemo[ret.query].keywords
         vec == embed_content(QueryMemo[ret.query].expanded)
         T == SeqToBag(<<ret.a.row, ret.b.row>>)
         Scored(r) ==
           [row |-> r.row,
            base |-> base_similarity(r, vec),
            matched |-> { i \in 1..Len(keywords) : content_or_meta(r, keywords[i]) },
            final |-> final_similarity(r, vec, keywords)]
     IN  /\ keywords # <<>>
         /\ \E sem \in semantic(T, vec), kwd \in keyword(T, keywords) :
              \E C \in DistinctOnContent(sem \cup kwd, vec) :
                \E rows \in RankCombined(C, vec, keywords, DefaultK) :
                  ret' = [op |-> "score", query |-> ret.query,
                          keywords |-> keywords, vec |-> vec,
                          a |-> Scored(ret.a), b |-> Scored(ret.b),
                          semantic |-> sem, keyword |-> kwd, combined |-> C,
                          results |-> [i \in 1..Len(rows) |->
                                         [row |-> rows[i],
                                          final_similarity |->
                                            final_similarity(rows[i], vec, keywords)]]]
  /\ UNCHANGED <<db, sess, chat, crawl>>

NextScore == ScoreCall

SpecScore == InitScore /\ [][NextScore]_vars

(***************************************************************************)
(* Sequences of inserts and deletes, which may meet store faults, and the  *)
(* two counting operations.                                                *)
(***************************************************************************)

\* The most documents the table holds in these sequences.
MaxStored == 3

InsertBatch ==
  \E documents \in Batches, fault \in Faults :
    /\ BagCardinality(db.store) + Len(documents) <= MaxStored
    /\ fault = "connect" => NeedsConnect(db)
    /\ LET o == add_documents_to_vectorstore(db, documents,
                                             [i \in 1..Len(documents) |-> 0], fault)
       IN  Call("add", [documents |-> documents, calls |-> o.calls], fault, o)

DeleteAll ==
  \E fault \in Faults :
    /\ fault = "connect" => NeedsConnect(db)
    /\ Call("clear", <<>>, fault, clear_vectorstore(db, fault))

DeleteByType ==
  \E doc_type \in DocTypes, fault \in Faults :
    /\ fault = "connect" => NeedsConnect(db)
    /\ Call("clear_by_type", [doc_type |-> doc_type], fault,
            clear_vectorstore_by_type(db, doc_type, fault))

CountAll ==
  \E o \in { get_document_count(db, "none") } :
    Call("count", <<>>, "none", o)

CountByType ==
  \E o \in get_document_counts_by_type(db, "none") :
    Call("counts_by_type", <<>>, "none", o)

NextCounts ==
  \/ InsertBatch
  \/ DeleteAll
  \/ DeleteByType
  \/ CountAll
  \/ CountByType

SpecCounts == Init /\ [][NextCounts]_vars

(***************************************************************************)
(* One chat session of app.py: each interaction reruns the script, which   *)
(* counts the documents, renders the stored history and, when a prompt was *)
(* entered, answers it.                                                    *)
(***************************************************************************)

\* The most prompts of one session.
MaxTurns == 2

\* app.py:313 and rag_chain.py:483: the two fixed replies; LlmAnswer(q)
\* stands for the text the model returns for question q.
NoDocumentsReply == "NoDocumentsReply"

NotFoundReply == "NotFoundReply"

LlmAnswer(question) == [answer_to |-> question]

\* app.py:282-303: the loop over st.session_state.messages; the sources of
\* message number i (from 0) are st.session_state.sources[i] when the
\* message is an assistant's and i < len(sources).
RenderHistory(messages, sources) ==
  [n \in 1..Len(messages) |->
     [role |-> messages[n].role,
      content |-> messages[n].content,
      sources |-> IF messages[n].role = "assistant" /\ n - 1 < Len(sources)
                  THEN sources[(n - 1) + 1]
                  ELSE <<>>]]

\* The outcome of an answer: prompts is what the chain was invoked with, in
\* order, and retrieved what the search returned.
Answer(o, status, exc, response, sources, prompts) ==
  [db |-> o.db, status |-> status, exc |-> exc, response |-> response,
   sources |-> sources, llm_calls |-> Len(prompts), prompts |-> prompts,
   retrieved |-> o.value]

\* Mutant of get_rag_response_with_sources: without the test of
\* relevant_docs, the chain is invoked on an empty context too.
get_rag_response_with_sources_AlwaysGenerates(d, question, fails, fault, llm_ok) ==
  { LET prompts == << [context |-> format_docs(o.value), question |-> question] >>
    IN  IF o.status = "raised" THEN Answer(o, "raised", o.exc, "", <<>>, <<>>)
        ELSE IF ~llm_ok THEN Answer(o, "raised", "LlmError", "", <<>>, prompts)
        ELSE Answer(o, "ok", "", LlmAnswer(question), o.value, prompts) :
    o \in search_similar_documents(d, question, DefaultK, fails, fault) }

\* get_rag_response_with_sources(question, chat_history, api_key)
\* (rag_chain.py:475-514): every outcome; llm_ok tells whether chain.invoke
\* returns or raises.
get_rag_response_with_sources(d, question, fails, fault, llm_ok) ==
  { LET prompts == << [context |-> format_docs(o.value), question |-> question] >>
    IN  IF o.status = "raised" THEN Answer(o, "raised", o.exc, "", <<>>, <<>>)
        ELSE IF o.value = <<>> THEN Answer(o, "ok", "", NotFoundReply, <<>>, <<>>)
        ELSE IF ~llm_ok THEN Answer(o, "raised", "LlmError", "", <<>>, prompts)
        ELSE Answer(o, "ok", "", LlmAnswer(question), o.value, prompts) :
    o \in search_similar_documents(d, question, DefaultK, fails, fault) }

\* stream_rag_response(question, chat_history, api_key) (rag_chain.py:437-472)
\* run to its end: chunks is what the generator yielded, sources and
\* response what it returned.  The chain streams its answer in two chunks;
\* when it fails (llm_ok false) it raises after the first.  full_response
\* is the concatenation of the chunks yielded, kept as the list of them.
stream_rag_response(d, question, fails, fault, llm_ok) ==
  { LET prompts == << [context |-> format_docs(o.value), question |-> question] >>
        stream == << [answer_to |-> question, part |-> 1],
                     [answer_to |-> question, part |-> 2] >>
        Yielded(answer, chunks) == answer @@ [chunks |-> chunks]
    IN  IF o.status = "raised"
        THEN Yielded(Answer(o, "raised", o.exc, <<>>, <<>>, <<>>), <<>>)
        ELSE IF o.value = <<>>
        THEN Yielded(Answer(o, "ok", "", <<>>, <<>>, <<>>), <<NotFoundReply>>)
        ELSE IF ~llm_ok
        THEN Yielded(Answer(o, "raised", "LlmError", <<>>, <<>>, prompts),
                     SubSeq(stream, 1, 1))
        ELSE Yielded(Answer(o, "ok", "", stream, o.value, prompts), stream) :
    o \in search_similar_documents(d, question, DefaultK, fails, fault) }

\* The session starts on an established connection over any table.
InitChatSession ==
  /\ db \in { [store |-> T, work |-> T, conn |-> "open", alive |-> TRUE,
               txn |-> "idle"] : T \in Tables }
  /\ ret = [op |-> "none"]
  /\ sess = InitSess
  /\ chat = InitChat
  /\ crawl = NoCrawl

UserMessage(prompt) == [role |-> "user", content |-> prompt]

AssistantMessage(response) == [role |-> "assistant", content |-> response]

\* What app.py:308-309 and 311-337 render for the turn being answered.
ShownMessage(message, sources) ==
  [role |-> message.role, content |-> message.content, sources |-> sources]

\* The state of the session after the assistant's reply (app.py:339-340).
Answered(prompt, response, sources) ==
  [messages |-> chat.messages \o <<UserMessage(prompt), AssistantMessage(response)>>,
   sources |-> Append(chat.sources, sources),
   shown |-> RenderHistory(chat.messages, chat.sources)
               \o << ShownMessage(UserMessage(prompt), <<>>),
                      ShownMessage(AssistantMessage(response), sources) >>,
   retrieved |-> chat.retrieved \o << <<>>, sources >>]

\* The state of the session when the script stops at line 318 with an
\* exception: the user's message was appended at line 306.
Interrupted(prompt) ==
  [messages |-> Append(chat.messages, UserMessage(prompt)),
   sources |-> chat.sources,
   shown |-> Append(RenderHistory(chat.messages, chat.sources),
                    ShownMessage(UserMessage(prompt), <<>>)),
   retrieved |-> Append(chat.retrieved, <<>>)]

\* A run of the script with a prompt entered (app.py:91, 282-340).
ChatTurn ==
  \E prompt \in Queries, fault \in { "none", "execute" }, llm_ok \in BOOLEAN :
    \E fails \in ProviderFailures(1) :
      LET counted == get_document_count(db, "none")
          doc_count == counted.value
      IN  /\ Cardinality({ n \in 1..Len(chat.messages) :
                             chat.messages[n].role = "user" }) < MaxTurns
          /\ (\E i \in DOMAIN fails : fails[i] # 0) => fault = "none"
          /\ IF doc_count = 0
             THEN /\ fault = "none" /\ llm_ok /\ fails = <<0>>
                  /\ db' = counted.db
                  /\ chat' = Answered(prompt, NoDocumentsReply, <<>>)
                  /\ ret' = [op |-> "chat_turn", prompt |-> prompt,
                             status |-> "ok", exc |-> "", llm_calls |-> 0]
             ELSE \E o \in get_rag_response_with_sources(counted.db, prompt,
                                                         fails, fault, llm_ok) :
                    /\ (llm_ok \/ o.llm_calls = 1)
                    /\ db' = o.db
                    /\ chat' = IF o.status = "ok"
                               THEN Answered(prompt, o.response, o.sources)
                               ELSE Interrupted(prompt)
                    /\ ret' = [op |-> "chat_turn", prompt |-> prompt,
                               status |-> o.status, exc |-> o.exc,
                               llm_calls |-> o.llm_calls]
          /\ UNCHANGED <<sess, crawl>>

\* A run of the script without a prompt (another widget was used).
ChatRerun ==
  /\ chat.messages # <<>>
  /\ db' = get_document_count(db, "none").db
  /\ chat' = [chat EXCEPT !.shown = RenderHistory(chat.messages, chat.sources)]
  /\ ret' = [op |-> "chat_rerun"]
  /\ UNCHANGED <<sess, crawl>>

\* The button of app.py:272-275: both lists are emptied and the script
\* runs again.
ChatClear ==
  /\ chat.messages # <<>>
  /\ db' = get_document_count(db, "none").db
  /\ chat' = InitChat
  /\ ret' = [op |-> "chat_clear"]
  /\ UNCHANGED <<sess, crawl>>

NextChat ==
  \/ ChatTurn
  \/ ChatRerun
  \/ ChatClear

SpecChat == InitChatSession /\ [][NextChat]_vars

(***************************************************************************)
(* Answers over tables of file-ingested documents: what the chain is       *)
(* invoked with, and when.                                                 *)
(***************************************************************************)

MaxIngested == 2

\* Files a user uploads: a PDF with a blank second page, a presentation, a
\* workbook (its extension in capitals), a text document, and a file of an
\* unsupported type.
UploadedFiles ==
  LET Unit(text, title) == [text |-> text, title |-> title]
  IN  { [name |-> <<"v",".","p","d","f">>,
         units |-> << Unit(<<"bi","jeon">>, <<>>), Unit(<<" ">>, <<>>),
                      Unit(<<"tae","jae">>, <<>>) >>],
        [name |-> <<"s",".","p","p","t","x">>,
         units |-> << Unit(<<>>, <<>>), Unit(<<"bi","jeon"," ","x">>, <<>>) >>],
        [name |-> <<"b",".","X","L","S","X">>,
         units |-> << Unit(<<"tae","jae"," ","bi","jeon">>, <<"S","1">>) >>],
        [name |-> <<"n",".","d","o","c","x">>,
         units |-> << Unit(<<"bi","jeon">>, <<>>), Unit(<<>>, <<>>),
                      Unit(<<"x","y","z">>, <<>>) >>],
        [name |-> <<"a",".","t","x","t">>, units |-> << Unit(<<"x">>, <<>>) >>] }

\* The documents load_file gives for them, and one row stored before the
\* type tags were unified.
IngestedDocs ==
  UNION { RangeOf(load_file(f).value) : f \in UploadedFiles }
    \cup { d \in DocPool : d.metadata.type = "pdf" }

InitAnswer ==
  /\ db \in { [store |-> T, work |-> T, conn |-> "open", alive |-> TRUE,
               txn |-> "idle"] :
              T \in { SeqToBag(StoredRows(b)) :
                        b \in UNION { [1..n -> IngestedDocs] : n \in 0..MaxIngested } } }
  /\ ret = [op |-> "none"]
  /\ sess = InitSess
  /\ chat = InitChat
  /\ crawl = NoCrawl

\* A call of get_rag_response_with_sources.
ResponseCall ==
  \E question \in Queries, fault \in { "none", "execute" }, llm_ok \in BOOLEAN :
    \E fails \in ProviderFailures(1) :
      /\ Meets(fault, fails)
      /\ \E o \in get_rag_response_with_sources(db, question, fails, fault, llm_ok) :
           /\ db' = o.db
           /\ ret' = [op |-> "answer", question |-> question, fault |-> fault]
                       @@ [f \in DOMAIN o \ {"db"} |-> o[f]]
      /\ UNCHANGED <<sess, chat, crawl>>

\* A call of stream_rag_response, the generator run to its end.
StreamCall ==
  \E question \in Queries, fault \in { "none", "execute" }, llm_ok \in BOOLEAN :
    \E fails \in ProviderFailures(1) :
      /\ Meets(fault, fails)
      /\ \E o \in stream_rag_response(db, question, fails, fault, llm_ok) :
           /\ db' = o.db
           /\ ret' = [op |-> "stream", question |-> question, fault |-> fault]
                       @@ [f \in DOMAIN o \ {"db"} |-> o[f]]
      /\ UNCHANGED <<sess, chat, crawl>>

NextAnswer ==
  \/ ResponseCall
  \/ StreamCall

SpecAnswer == InitAnswer /\ [][NextAnswer]_vars

(***************************************************************************)
(* A call of crawl_website over a fixed site, one loop iteration at a      *)
(* time.  What the environment decides is whether a start of the browser   *)
(* driver succeeds.                                                        *)
(***************************************************************************)

MaxPages == 16

SitePages == 14

\* The site http://a.kr: its front page links to every page /n, to page /1
\* under two more spellings, to a page of the host a.kr.b.com, to another
\* site, to a file and to an anchor; every page /n links back to the front
\* page.  Page /2 is short, and page /3 does not load.
Site(url) ==
  LET Page(n) == <<"/">> \o Str(n)
      Loaded(long, hrefs) == [loaded |-> TRUE, long |-> long, hrefs |-> hrefs]
      Served(scheme, netloc, path) ==
        IF scheme = <<"h","t","t","p">> /\ netloc = <<"a",".","k","r">> /\ path = <<>>
        THEN Loaded(TRUE, << <<"#","t","o","p">>, <<"/","1","/","/">>, <<"/","1">>, <<"h","t","t","p",":","/","/","a",".","k","r",".","b",".","c","o","m","/","x">>, <<"h","t","t","p",":","/","/","c",".","k","r","/">>, <<"/","f",".","p","d","f">> >>
                            \o [n \in 1..(SitePages - 1) |-> Page(n + 1)])
        ELSE IF /\ scheme = <<"h","t","t","p">> /\ netloc = <<"a",".","k","r">>
                /\ \E n \in 1..SitePages : path = Page(n) /\ n # 3
        THEN Loaded(path # Page(2), << <<"/">> >>)
        ELSE IF netloc = <<"a",".","k","r",".","b",".","c","o","m">> /\ path = <<"/", "x">>
        THEN Loaded(TRUE, << <<"h","t","t","p",":","/","/","a",".","k","r","/">> >>)
        ELSE [loaded |-> FALSE, long |-> FALSE, hrefs |-> <<>>]
      Requested(u) ==
        Served(u.scheme, u.netloc,
               SubSeq(u.path, 1,
                      Len(u.path)
                        - Cardinality({ i \in 1..Len(u.path) :
                                          \A j \in i..Len(u.path) : u.path[j] = "/" })))
  IN  Requested(urlparse(url))

\* extract_page_content(url, headers) (ingest.py:113-140) and
\* extract_page_content_selenium(driver, url) (176-203): whether there is a
\* result, whether its text is longer than 100 characters, and the
\* normalized links of the page.
extract_page_content(url) ==
  LET Parsed(page) ==
        [result |-> page.loaded, long |-> page.long,
         links |-> SelectSeq([i \in 1..Len(page.hrefs) |->
                                normalize_url(url, page.hrefs[i])],
                             LAMBDA link : link # None)]
  IN  Parsed(Site(url))

StartUrls == { <<"h","t","t","p",":","/","/","a",".","k","r","/">>, <<"h","t","t","p",":","/","/","a",".","k","r","/","4","?","x">> }

\* crawl_website(start_url, max_pages, progress_callback, use_js)
\* (ingest.py:206-221) up to its loop.  fetched, progress and calls continue
\* those of the call it is made from: the pages requested, the
\* progress_callback calls, and the number of calls of crawl_website.
Begin(start_url, max_pages, use_js, from) ==
  [pc |-> "loop", start_url |-> start_url, max_pages |-> max_pages,
   use_js |-> use_js, base_domain |-> get_base_domain(start_url),
   visited |-> {}, to_visit |-> <<start_url>>, documents |-> <<>>,
   consecutive_errors |-> 0, pages_since_restart |-> 0,
   fetched |-> from.fetched, progress |-> from.progress,
   calls |-> from.calls + 1]

NotCalled == [fetched |-> <<>>, progress |-> <<>>, calls |-> 0]

\* One iteration of the while loop (ingest.py:230-293 with use_js, 313-338
\* without).  restart_ok and again_ok tell whether get_selenium_driver()
\* returns at line 248, resp. at line 287; when the latter raises, the
\* except of line 302 calls crawl_website(..., use_js=False).
Iteration(c, restart_ok, again_ok) ==
  LET Fetched(s, current_url, page) ==
        [s EXCEPT !.fetched = Append(@, current_url),
                  !.pages_since_restart = IF c.use_js THEN @ + 1 ELSE @,
                  !.documents = IF page.result /\ page.long
                                THEN Append(@, [source |-> current_url,
                                                type |-> "website"])
                                ELSE @,
                  !.consecutive_errors = IF ~c.use_js THEN @
                                         ELSE IF page.result THEN 0 ELSE @ + 1,
                  !.to_visit = ExtendToVisit(@, page.links, c.base_domain, s.visited)]
      Failed(s) ==
        IF s.consecutive_errors < max_consecutive_errors THEN s
        ELSE IF again_ok
        THEN [s EXCEPT !.consecutive_errors = 0, !.pages_since_restart = 0]
        ELSE Begin(c.start_url, c.max_pages, FALSE, s)
      Visit(seen, current_url) ==
        IF c.use_js /\ c.pages_since_restart >= driver_restart_interval
        THEN IF restart_ok
             THEN Fetched([seen EXCEPT !.pages_since_restart = 0], current_url,
                          extract_page_content(current_url))
             ELSE Failed([seen EXCEPT !.consecutive_errors = @ + 1])
        ELSE Fetched(seen, current_url, extract_page_content(current_url))
      Pop(current_url, normalized_current) ==
        IF normalized_current \in c.visited THEN [c EXCEPT !.to_visit = Tail(@)]
        ELSE Visit([c EXCEPT !.to_visit = Tail(@),
                             !.visited = @ \cup { normalized_current },
                             !.progress =
                               Append(@, [current |-> Cardinality(c.visited) + 1,
                                          total |-> c.max_pages,
                                          url |-> current_url])],
                   current_url)
  IN  Pop(Head(c.to_visit), normalize_url(Head(c.to_visit), Head(c.to_visit)))

\* The condition of the while loops at lines 230 and 313.
Crawling(c) == c.to_visit # <<>> /\ Cardinality(c.visited) < c.max_pages

\* The call: with use_js, get_selenium_driver() at line 226 returns or
\* raises, and then the except of line 302 starts over without it.
CrawlStart ==
  /\ crawl.pc = "idle"
  /\ \E start_url \in StartUrls, max_pages \in 1..MaxPages,
        use_js \in BOOLEAN, driver_ok \in BOOLEAN :
       /\ ~use_js => driver_ok
       /\ crawl' = IF driver_ok
                   THEN Begin(start_url, max_pages, use_js, NotCalled)
                   ELSE Begin(start_url, max_pages, FALSE,
                              Begin(start_url, max_pages, TRUE, NotCalled))
  /\ UNCHANGED <<db, ret, sess, chat>>

CrawlPage ==
  /\ crawl.pc = "loop"
  /\ Crawling(crawl)
  /\ \E restart_ok \in BOOLEAN, again_ok \in BOOLEAN :
       crawl' = Iteration(crawl, restart_ok, again_ok)
  /\ UNCHANGED <<db, ret, sess, chat>>

\* return documents (ingest.py:340)
CrawlReturn ==
  /\ crawl.pc = "loop"
  /\ ~Crawling(crawl)
  /\ crawl' = [crawl EXCEPT !.pc = "done"]
  /\ ret' = [op |-> "crawl_website", value |-> crawl.documents]
  /\ UNCHANGED <<db, sess, chat>>

NextCrawl ==
  \/ CrawlStart
  \/ CrawlPage
  \/ CrawlReturn

SpecCrawl == Init /\ [][NextCrawl]_vars


(***************************************************************************)
(* The claims.                                                             *)
(***************************************************************************)

StoreOps ==
  { "add", "search", "count", "counts_by_type", "migrate", "clear",
    "clear_by_type" }

\* The connection serves statements: it is open and the server has not
\* dropped it.
Healthy(d) == d.conn = "open" /\ d.alive

\* C1: search_similar_documents never returns two documents with the same
\* content, with or without extracted keywords.
C1_NoDuplicateContent ==
  (ret.op = "search" /\ ret.status = "ok") =>
    \A i, j \in 1..Len(ret.value) :
      i # j => ret.value[i].page_content # ret.value[j].page_content

\* C2: every store-level error during search_similar_documents becomes an
\* empty result list; search never propagates a store error.
C2_SearchSwallowsStoreErrors ==
  ret.op = "search" => ~(ret.status = "raised" /\ ret.exc = "StoreError")

\* C3: a failure inside one operation never makes a later operation fail or
\* return a wrong value while the store is healthy: a count that meets no
\* fault on a healthy connection returns the number of stored documents, and
\* an insert that meets no fault on a healthy connection succeeds.
C3_FailureIsLocal ==
  /\ (ret.op = "count" /\ ret.fault = "none" /\ Healthy(db))
       => ret.value = BagCardinality(db.store)
  /\ (ret.op = "add" /\ ret.fault = "none" /\ Healthy(db)
        /\ ret.exc # "EmbeddingFailure")
       => ret.status = "ok"

\* C4: after a store operation whose statement the server rejected, the
\* shared connection is not left inside an open or aborted transaction: the
\* operation has rolled it back.
C4_RolledBackAfterSqlError ==
  (ret.op \in StoreOps /\ ret.fault = "execute") => db.txn = "idle"

\* One row (content, embedding of the content, metadata) per document of a
\* batch, as a bag.
RowsFor(documents) ==
  SeqToBag([i \in 1..Len(documents) |->
              [content |-> documents[i].page_content,
               embedding |-> embed_content(documents[i].page_content),
               metadata |-> documents[i].metadata]])

\* C5: with two sessions on the shared connection, an
\* add_documents_to_vectorstore call that returns n has committed its n
\* documents, whatever a search of the other session does in between.
C5_ConcurrentAddIsCommitted ==
  (ret.op = "add" /\ ret.status = "ok") =>
    \A r \in DOMAIN RowsFor(ret.args.documents) :
      CopiesIn(r, db.store) =
        CopiesIn(r, ret.pre.store) + CopiesIn(r, RowsFor(ret.args.documents))

\* C6: one add_documents_to_vectorstore call is all-or-nothing: when it
\* returns, it returns len(documents) and the table is the table before plus
\* one row per document; when it raises, the table is the table before; an
\* empty batch returns 0 without a remote call and without touching the
\* connection.
C6_AddAllOrNothing ==
  ret.op = "add" =>
    /\ ret.status = "ok" =>
         /\ ret.value = Len(ret.args.documents)
         /\ db.store = ret.pre.store (+) RowsFor(ret.args.documents)
    /\ ret.status = "raised" => db.store = ret.pre.store
    /\ ret.args.documents = <<>> =>
         /\ ret.status = "ok" /\ ret.value = 0
         /\ ret.args.calls = 0
         /\ db = ret.pre

\* C6 witness: an insert into a table that already holds documents was
\* rejected by the server and raised the wrapped database error.
C6_Witness ==
  /\ ret.op = "add" /\ ret.exc = "DatabaseError" /\ ret.fault = "execute"
  /\ ret.pre.store # EmptyBag
  /\ ret.args.documents # <<>>

\* C7: when the shared connection is closed or broken before a store
\* operation (also when the server dropped it and the client has not
\* noticed), the operation reestablishes it first and does not fail.
C7_StaleConnectionReestablished ==
  (/\ ret.op \in StoreOps
   /\ ret.fault = "none"
   /\ ret.exc # "EmbeddingFailure"
   /\ ret.pre.conn = "closed" \/ (ret.pre.conn = "open" /\ ~ret.pre.alive))
    => (ret.status = "ok" /\ Healthy(db))

\* C8: whenever embed_texts returns, the result has one vector per input
\* text, the i-th being the embedding of the i-th text, for every
\* max_retries.
C8_OneVectorPerText ==
  (ret.op = "embed_texts" /\ ~ret.raised) =>
    /\ Len(ret.value) = Len(ret.texts)
    /\ \A i \in 1..Len(ret.texts) : ret.value[i] = embed_content(ret.texts[i])

IsCall(ev) == ev.kind = "call"

IsFailedCall(ev) == ev.kind = "call" /\ ~ev.ok

C10_AtMostK ==
  (ret.op = "search" /\ ret.status = "ok") =>
    /\ Len(ret.value) <= ret.args.k
    /\ QueryMemo[ret.args.query].keywords # <<>>
         => Len(ret.value) <= 2 * PoolCap

\* C10 witness: a keyword search with k = 1 over a table of three rows
\* returned one document.
C10_Witness ==
  /\ ret.op = "search" /\ ret.status = "ok"
  /\ QueryMemo[ret.args.query].keywords # <<>>
  /\ ret.args.k = 1 /\ Len(ret.value) = 1
  /\ BagCardinality(ret.pre.store) = 3

\* C11: extract_keywords is idempotent on its own filtering: every keyword
\* of extract_keywords applied to the space-joined output of
\* extract_keywords(q) is a member of extract_keywords(q).
C11_ExtractIdempotent ==
  (ret.op = "extract_keywords" /\ ret.from # <<>>) =>
    RangeOf(ret.value) \subseteq RangeOf(ret.from)

\* C12: for the scenario query, extract_keywords contains "tae jae",
\* "tae jae dae hag gyo" and "bi jeon" (romanized) and no keyword derived
\* from the token "mwo xya"; expand_query appends the synonyms of
\* "tae jae dae hag gyo" and of "bi jeon".
C12_Scenario ==
  /\ (ret.op = "extract_keywords" /\ ret.query = ScenarioQuery) =>
       /\ { <<"tae","jae">>, <<"tae","jae","dae","hag","gyo">>, <<"bi","jeon">> } \subseteq RangeOf(ret.value)
       /\ RangeOf(TokenKeywords(<<"mwo","xya">>)) \cap RangeOf(ret.value) = {}
  /\ (ret.op = "expand_query" /\ ret.query = ScenarioQuery) =>
       /\ Contains(ret.value, <<" ">> \o <<"T","a","e","j","a","e"," ","T","A","E","J","A","E"," ","t","a","e","j","a","e",".","a","c",".","k","r">>)
       /\ Contains(ret.value, <<" ">> \o <<"v","i","s","i","o","n"," ","v","i","s","i","o","n","s">>)

\* The indexes of the dictionary entries whose key is a substring of query,
\* in dictionary order.
MatchingKeys(query) ==
  SelectSeq([i \in 1..Len(KR_EN_MAP) |-> i],
            LAMBDA i : Contains(query, KR_EN_MAP[i].kr))

\* The synonym strings of the entries ks, each after one space.
Synonyms(ks) ==
  LET RECURSIVE go(_)
      go(j) == IF j > Len(ks) THEN <<>>
               ELSE <<" ">> \o KR_EN_MAP[ks[j]].en \o go(j + 1)
  IN  go(1)

\* C14: expand_query(query) is query followed by the synonym string of
\* every dictionary key that is a substring of query, all of them, in
\* dictionary order; a query that contains no key is returned unchanged.
C14_ExpandAccumulates ==
  ret.op = "expand_query" =>
    /\ SubSeq(ret.value, 1, Len(ret.query)) = ret.query
    /\ \A i \in 1..Len(KR_EN_MAP) :
         Contains(ret.query, KR_EN_MAP[i].kr)
           => Contains(ret.value, <<" ">> \o KR_EN_MAP[i].en)
    /\ ret.value = ret.query \o Synonyms(MatchingKeys(ret.query))
    /\ MatchingKeys(ret.query) = <<>> => ret.value = ret.query

\* C14 witness: a query that contains three dictionary keys was expanded.
C14_Witness ==
  /\ ret.op = "expand_query"
  /\ Len(MatchingKeys(ret.query)) = 3
  /\ Len(ret.value) > Len(ret.query)

\* The position of the first occurrence of x in the list xs.
FirstIndex(xs, x) == CHOOSE i \in 1..Len(xs) : xs[i] = x /\ \A j \in 1..(i - 1) : xs[j] # x

\* C15: the list extract_keywords returns has no duplicate entry, holds
\* what the loop emitted and lists it in the order of first emission.
C15_NoDuplicateKeywords ==
  ret.op = "extract_keywords" =>
    /\ \A i, j \in 1..Len(ret.value) : i # j => ret.value[i] # ret.value[j]
    /\ RangeOf(ret.value) = RangeOf(ret.emitted)
    /\ \A i, j \in 1..Len(ret.value) :
         i < j => FirstIndex(ret.emitted, ret.value[i])
                    < FirstIndex(ret.emitted, ret.value[j])

\* C15 witness: the loop emitted a keyword twice, and other keywords
\* after the repetition.
C15_Witness ==
  /\ ret.op = "extract_keywords"
  /\ Len(ret.value) >= 2
  /\ Len(ret.emitted) > Len(ret.value)

\* Row a matches every keyword, row b exactly one, and both have the same
\* base similarity.
AllAgainstOne ==
  /\ ret.op = "score"
  /\ ret.a.matched = 1..Len(ret.keywords)
  /\ Cardinality(ret.b.matched) = 1
  /\ ret.a.base = ret.b.base

LegacyRows(T) ==
  { r \in DOMAIN T : "type" \in DOMAIN r.metadata /\ r.metadata.type \in LegacyTypes }

\* Table T with the type of every legacy-typed row set to "file" and
\* nothing else changed.
Retagged(T) ==
  LET new(r) == IF r \in LegacyRows(T)
                THEN [r EXCEPT !.metadata = [r.metadata EXCEPT !.type = "file"]]
                ELSE r
      RECURSIVE go(_)
      go(S) == IF S = {} THEN EmptyBag
               ELSE LET r == CHOOSE x \in S : TRUE
                    IN  [x \in {new(r)} |-> T[r]] (+) go(S \ {r})
  IN  go(DOMAIN T)

\* C16: a migrate_file_types call that meets no store fault does not raise
\* and leaves no document of type pdf, docx, pptx or xlsx; it changes only
\* the type field of the legacy-typed documents (same number of documents,
\* same content, other documents untouched); on a table without legacy
\* types it changes nothing.
C16_MigrateIdempotent ==
  (ret.op = "migrate" /\ ret.fault = "none") =>
    /\ ret.status = "ok"
    /\ LegacyRows(db.store) = {}
    /\ db.store = Retagged(ret.pre.store)
    /\ BagCardinality(db.store) = BagCardinality(ret.pre.store)
    /\ LegacyRows(ret.pre.store) = {} => db.store = ret.pre.store

\* The rows of table T whose type is t.
RowsOfType(T, t) ==
  { r \in DOMAIN T : "type" \in DOMAIN r.metadata /\ r.metadata.type = t }

\* The last call was a clear_vectorstore_by_type that returned.
ClearedByType == ret.op = "clear_by_type" /\ ret.status = "ok"

\* The table is the table before the call without the rows of the type,
\* and the call returned the number of rows it removed.
RemovedExactlyTheType ==
  LET T == ret.pre.store
      gone == RowsOfType(T, ret.args.doc_type)
  IN  /\ DOMAIN db.store = DOMAIN T \ gone
      /\ \A r \in DOMAIN db.store : db.store[r] = T[r]
      /\ ret.value = BagCardinality(T) - BagCardinality(db.store)
      /\ ret.value = BagCardinality([r \in gone |-> T[r]])

\* C17: a clear_vectorstore_by_type(t) that returns has removed exactly the
\* stored documents of type t, returns their number and leaves every other
\* document unchanged; a get_document_counts_by_type right after it has no
\* key t.
C17_ClearByTypeExact ==
  [][ /\ ClearedByType' => RemovedExactlyTheType'
      /\ (ClearedByType /\ ret'.op = "counts_by_type") =>
           \A i \in 1..Len(ret'.value) : ret'.value[i][1] # ret.args.doc_type
    ]_vars

\* C17 witness: a call removed one document and left another, of another
\* type, in the table.
C17_Witness ==
  /\ ClearedByType
  /\ ret.value = 1
  /\ BagCardinality(ret.pre.store) = 2
  /\ BagCardinality(db.store) = 1

\* The type tags of the rows of table T ('unknown' for a row without one).
TypesIn(T) ==
  { IF "type" \in DOMAIN r.metadata THEN r.metadata.type ELSE "unknown" :
      r \in DOMAIN T }

\* The sum of the counts of a list of (type, count) pairs.
SumOfCounts(v) ==
  LET RECURSIVE go(_)
      go(i) == IF i > Len(v) THEN 0 ELSE v[i][2] + go(i + 1)
  IN  go(1)

\* C18: after any sequence of inserts and deletes,
\* get_document_counts_by_type returns one entry per type present in the
\* table, with the number of stored documents of that type, in descending
\* order of count; the counts sum to the number of stored documents, which
\* is what get_document_count returns.
C18_CountsByType ==
  /\ ret.op = "counts_by_type" =>
       LET v == ret.value
       IN  /\ \A i, j \in 1..Len(v) : i # j => v[i][1] # v[j][1]
           /\ { v[i][1] : i \in 1..Len(v) } = TypesIn(db.store)
           /\ \A i \in 1..Len(v) :
                v[i][2] = BagCardinality([r \in RowsOfType(db.store, v[i][1])
                                            |-> db.store[r]])
           /\ \A i, j \in 1..Len(v) : i < j => v[i][2] >= v[j][2]
           /\ SumOfCounts(v) = BagCardinality(db.store)
  /\ ret.op = "count" => ret.value = BagCardinality(db.store)

\* C18 witness: with two documents of type file and one of type news
\* stored, the mapping is file: 2, news: 1.
C18_Witness ==
  /\ ret.op = "counts_by_type"
  /\ ret.value = << <<"file", 2>>, <<"news", 1>> >>

\* C19: when the table holds no documents, a search_similar_documents call
\* whose embedding succeeds and which meets no store fault returns an empty
\* list and does not raise, with or without keywords.
C19_EmptyStoreEmptyResult ==
  (/\ ret.op = "search"
   /\ ret.pre.store = EmptyBag
   /\ ret.fault = "none"
   /\ ret.exc # "EmbeddingFailure")
    => (ret.status = "ok" /\ ret.value = <<>>)

\* C20: in the history a chat session displays, the sources shown with each
\* assistant message are the documents that were retrieved to produce that
\* message.
C20_SourcesAligned ==
  \A n \in 1..Len(chat.shown) :
    chat.shown[n].role = "assistant"
      => chat.shown[n].sources = chat.retrieved[n]

\* C25: no keyword extract_keywords returns is a stop word, and none is
\* shorter than 2 characters.
C25_NoStopwordKeywords ==
  ret.op = "extract_keywords" =>
    \A i \in 1..Len(ret.value) :
      /\ ret.value[i] \notin stop_words
      /\ Len(ret.value[i]) >= 2

\* The tokens of a query that pass the length and stop-word filter.
Survivors(query) ==
  { t \in RangeOf(Split(Cleaned(query))) : Len(t) >= 2 /\ t \notin stop_words }

\* The suffixes of the list a token ends with and that leave a base of at
\* least 2 characters.
Strippable(t) ==
  { s \in RangeOf(suffixes) : EndsWith(t, s) /\ Len(t) - Len(s) >= 2 }

\* The token without the longest of its strippable suffixes.
BaseOf(t) ==
  IF Strippable(t) = {} THEN t
  ELSE LET longest == CHOOSE s \in Strippable(t) :
                        \A u \in Strippable(t) : Len(u) <= Len(s)
       IN  SubSeq(t, 1, Len(t) - Len(longest))

\* The synonyms of a base that is a dictionary key, word by word.
SynonymWords(base) ==
  UNION { { w \in RangeOf(Split(KR_EN_MAP[i].en)) : Len(w) >= 2 } :
          i \in { j \in 1..Len(KR_EN_MAP) : KR_EN_MAP[j].kr = base } }

\* C26: for each surviving token at most one suffix is stripped, the
\* longest suffix of the list the token ends with that leaves a base of at
\* least 2 characters; the output holds the base and the token, and nothing
\* but these and the synonyms of the bases.
C26_LongestSuffixOnce ==
  ret.op = "extract_keywords" =>
    /\ \A t \in Survivors(ret.query) :
         BaseOf(t) \in RangeOf(ret.value) /\ t \in RangeOf(ret.value)
    /\ RangeOf(ret.value) =
         UNION { { BaseOf(t), t } \cup SynonymWords(BaseOf(t)) :
                 t \in Survivors(ret.query) }

\* C26 witness: a token that ends with two suffixes of the list, both of
\* which leave a base of 2 characters or more, and a token that ends with a
\* suffix too long to strip.
C26_Witness ==
  /\ ret.op = "extract_keywords"
  /\ \E t \in Survivors(ret.query) : Cardinality(Strippable(t)) >= 2
  /\ \E t \in Survivors(ret.query) :
       \E s \in RangeOf(suffixes) : EndsWith(t, s) /\ s \notin Strippable(t)

\* keyword kw is found, letter case aside, in the content, the filename or
\* the source of row r.
Found(r, kw) ==
  \/ Contains(Lower(r.row.content), Lower(kw))
  \/ \E key \in DOMAIN r.row.metadata \cap { "filename", "source" } :
       Contains(Lower(r.row.metadata[key]), Lower(kw))

\* The final score of the fusion rule, in hundredths: the base similarity,
\* 3 for each keyword found, 30 when every keyword is found.
FusionScore(r, vec, keywords) ==
  Cosine[Abs(r.row.embedding - vec) + 1]
  + 3 * Cardinality({ i \in 1..Len(keywords) : Found(r, keywords[i]) })
  + (IF \A i \in 1..Len(keywords) : Found(r, keywords[i]) THEN 30 ELSE 0)

\* C22: with extracted keywords, every row the search fetches has the final
\* score of the fusion rule, and the rows come in non-increasing order of
\* that score.
C22_FusionScoreAndOrder ==
  ret.op = "score" =>
    /\ \A i \in 1..Len(ret.results) :
         ret.results[i].final_similarity
           = FusionScore(ret.results[i].row, ret.vec, ret.keywords)
    /\ \A i, j \in 1..Len(ret.results) :
         i < j => FusionScore(ret.results[i].row, ret.vec, ret.keywords)
                    >= FusionScore(ret.results[j].row, ret.vec, ret.keywords)

\* The rows of both candidate pools.
Pooled == ret.semantic \cup ret.keyword

\* C23: of the rows of the two pools, the merge keeps exactly one row for
\* each content, a row of the highest base similarity among the pooled rows
\* of that content, and every fetched row is a row of one of the pools.
C23_MergeKeepsBestPerContent ==
  ret.op = "score" =>
    /\ \A r \in Pooled :
         Cardinality({ c \in ret.combined : c.row.content = r.row.content }) = 1
    /\ \A c \in ret.combined :
         /\ c \in Pooled
         /\ \A r \in Pooled :
              r.row.content = c.row.content =>
                Cosine[Abs(c.row.embedding - ret.vec) + 1]
                  >= Cosine[Abs(r.row.embedding - ret.vec) + 1]
    /\ \A i \in 1..Len(ret.results) : ret.results[i].row \in Pooled
    /\ \A i, j \in 1..Len(ret.results) :
         i # j => ret.results[i].row.row.content # ret.results[j].row.row.content

\* C23 witness: the pools hold two rows of the same content and of
\* different base similarity, and one of them is fetched.
C23_Witness ==
  /\ ret.op = "score"
  /\ \E r, q \in Pooled :
       /\ r.row.content = q.row.content
       /\ Cosine[Abs(r.row.embedding - ret.vec) + 1]
            > Cosine[Abs(q.row.embedding - ret.vec) + 1]
  /\ Len(ret.results) = 1

\* The embedding service fails every attempt at the query of the search.
EmbeddingExhausted ==
  /\ ret.op = "search"
  /\ \E i \in DOMAIN ret.args.fails : ret.args.fails[i] >= DefaultMaxRetries

\* C24: when embedding the expanded query fails after its retries,
\* search_similar_documents raises the embedding failure (it does not
\* return an empty list) and leaves the shared connection as it was: not
\* acquired, not rolled back.
C24_EmbeddingFailureBeforeStore ==
  EmbeddingExhausted =>
    /\ ret.status = "raised"
    /\ ret.exc = "EmbeddingFailure"
    /\ db = ret.pre

\* C24 witness: the embedding failed while the shared connection had an
\* open or an aborted transaction, which a rollback would have ended.
C24_Witness ==
  /\ EmbeddingExhausted
  /\ ret.pre.conn = "open"
  /\ ret.pre.txn \in { "intrans", "inerror" }

\* C30: the message list of the session alternates user and assistant
\* messages, starting with a user message, and the sources list has one
\* entry for each assistant message.
C30_AlternatingTurns ==
  /\ \A n \in 1..Len(chat.messages) :
       chat.messages[n].role = (IF n % 2 = 1 THEN "user" ELSE "assistant")
  /\ Len(chat.sources)
       = Cardinality({ n \in 1..Len(chat.messages) :
                         chat.messages[n].role = "assistant" })

\* The part of the source label of retrieved document i that follows
\* "[Source i: <filename or source>", up to the closing bracket, in the
\* context the chain was invoked with.
LocatorPart(context, docs, i) ==
  LET md == docs[i].metadata
      head == <<"[","S","o","u","r","c","e"," ">> \o Str(i) \o <<":"," ">>
                \o (IF "filename" \in DOMAIN md THEN md.filename ELSE md.source)
      at == CHOOSE p \in 1..Len(context) :
              /\ p + Len(head) - 1 <= Len(context)
              /\ SubSeq(context, p, p + Len(head) - 1) = head
              /\ \A q \in 1..(p - 1) :
                   SubSeq(context, q, Min(Len(context), q + Len(head) - 1)) # head
      rest == SubSeq(context, at + Len(head), Len(context))
      close == CHOOSE p \in 1..Len(rest) :
                 rest[p] = "]" /\ \A q \in 1..(p - 1) : rest[q] # "]"
  IN  SubSeq(rest, 1, close - 1)

\* The locator a document carries, as text; <<>> when it carries none.
LocatorOf(md) ==
  IF "page" \in DOMAIN md THEN Str(md.page)
  ELSE IF "slide" \in DOMAIN md THEN Str(md.slide)
  ELSE IF "sheet" \in DOMAIN md THEN md.sheet
  ELSE <<>>

\* C21: for a retrieved document that came from file ingestion (type
\* "file") and carries a page, slide or sheet in its metadata, the source
\* label put before its content in the context contains that locator in
\* addition to the filename.
C21_FileLabelHasLocator ==
  (ret.op \in { "answer", "stream" } /\ ret.prompts # <<>>) =>
    \A i \in 1..Len(ret.retrieved) :
      LET md == ret.retrieved[i].metadata
      IN  (md.type = "file" /\ LocatorOf(md) # <<>>) =>
            Contains(LocatorPart(ret.prompts[1].context, ret.retrieved, i),
                     LocatorOf(md))

\* C27: the chain is invoked only after the search returned at least one
\* document; when the search returns an empty list, both
\* get_rag_response_with_sources and stream_rag_response give the fixed
\* message and an empty source list, invoke no chain and do not raise.
C27_GeneratesOnlyAfterRetrieval ==
  ret.op \in { "answer", "stream" } =>
    /\ ret.llm_calls > 0 => (ret.retrieved # <<>> /\ ret.llm_calls = 1)
    /\ (ret.status = "ok" /\ ret.retrieved = <<>>) =>
         /\ ret.sources = <<>>
         /\ ret.llm_calls = 0
         /\ ret.op = "answer" => ret.response = NotFoundReply
         /\ ret.op = "stream" => ret.chunks = <<NotFoundReply>>
    /\ (ret.status = "raised" /\ ret.llm_calls = 0) => ret.exc # "LlmError"

\* Witness of C27: a streamed answer over a table that holds rows, whose
\* search returned nothing because the statement failed.
C27_Witness ==
  /\ ret.op = "stream"
  /\ ret.status = "ok"
  /\ ret.fault = "execute"
  /\ db.store # EmptyBag
  /\ ret.retrieved = <<>>
  /\ ret.chunks = <<NotFoundReply>>
  /\ ret.llm_calls = 0

\* C28: a call of crawl_website fetches at most max_pages pages, never
\* fetches the same normalized URL twice, holds (and returns) at most
\* max_pages documents, and every progress_callback(current, total, url)
\* call has 1 <= current <= total = max_pages.
C28_CrawlWithinMaxPages ==
  crawl.pc # "idle" =>
    /\ Len(crawl.fetched) <= crawl.max_pages
    /\ \A i, j \in 1..Len(crawl.fetched) :
         normalize_url(crawl.fetched[i], crawl.fetched[i])
           = normalize_url(crawl.fetched[j], crawl.fetched[j]) => i = j
    /\ Len(crawl.documents) <= crawl.max_pages
    /\ \A i \in 1..Len(crawl.progress) :
         /\ 1 <= crawl.progress[i].current
         /\ crawl.progress[i].current <= crawl.progress[i].total
         /\ crawl.progress[i].total = crawl.max_pages

\* C29: every page crawl_website fetches other than start_url has the
\* scheme and the host (netloc) of start_url.
C29_SameDomainOnly ==
  crawl.pc # "idle" =>
    \A i \in 1..Len(crawl.fetched) :
      crawl.fetched[i] # crawl.start_url =>
        /\ urlparse(crawl.fetched[i]).scheme = urlparse(crawl.start_url).scheme
        /\ urlparse(crawl.fetched[i]).netloc = urlparse(crawl.start_url).netloc

=============================================================================
